---- MODULE Spec2Model ----
(***************************************************************************)
(* Language Learning Quiz API: the quiz store (quiz, question and answer   *)
(* tables), the authoring controller (create, update, delete, get, list)   *)
(* and the session controller (start, submit, scoring, statistics, time    *)
(* check).                                                                 *)
(*                                                                         *)
(* Conventions.  A Python value that may be None, or a dictionary key that *)
(* may be absent, is an option: None is the empty tuple and a present      *)
(* value v is the one-element tuple <<v>>.  A dictionary is a record.  A   *)
(* table is a function from the primary keys of its rows to the rows.      *)
(* Percentages are exact rationals num/den; a percentage rounded to two    *)
(* decimals is an integer number of hundredths (33.33 is 3333).            *)
(* Timestamps (created_at, updated_at, submitted_at) are not modelled; the *)
(* creation order of quizzes is the order of their ids.                    *)
(***************************************************************************)
EXTENDS Integers, Sequences, FiniteSets, TLC

VARIABLES
    db,      \* the committed tables: [quiz, question, answer]
    seq,     \* the next primary key of each table: [quiz, question, answer]
    req,     \* the last request: [op, ...]
    resp,    \* the response to it: [status, success, message, data, error]
    staged   \* rows the controller had left uncommitted in db.session when it
             \* returned resp (the request's teardown then discards them)

vars == <<db, seq, req, resp, staged>>

(***************************************************************************)
(* Bounds of the model.                                                    *)
(***************************************************************************)
MaxQuizzes == 2       \* quiz ids handed out: creation stops after this many
MaxQuestions == 2     \* questions in one create payload

None == <<>>
Some(v) == <<v>>
Get(opt, default) == IF opt = None THEN default ELSE opt[1]

RECURSIVE SetToSeq(_)
SetToSeq(S) ==
    IF S = {} THEN <<>>
    ELSE LET m == CHOOSE x \in S : \A y \in S : x <= y
         IN <<m>> \o SetToSeq(S \ {m})

RECURSIVE SumSeq(_)
SumSeq(s) == IF s = <<>> THEN 0 ELSE Head(s) + SumSeq(Tail(s))

Map(s, F(_)) == [i \in 1..Len(s) |-> F(s[i])]

EmptyRows == [x \in {} |-> x]
EmptyDb == [quiz |-> EmptyRows, question |-> EmptyRows, answer |-> EmptyRows]

(***************************************************************************)
(* models/quiz.py, models/question.py, models/answer.py                    *)
(***************************************************************************)
\* Question.answers: the answers whose question_id is this question, in
\* primary-key (insertion) order.
answers(d, question_id) ==
    SetToSeq({a \in DOMAIN d.answer : d.answer[a].question_id = question_id})

\* Quiz.questions: the questions whose quiz_id is this quiz, in primary-key
\* (insertion) order.
questions(d, quiz_id) ==
    SetToSeq({q \in DOMAIN d.question : d.question[q].quiz_id = quiz_id})

Answer_to_dict(d, a) ==
    [id |-> a,
     text |-> d.answer[a].text,
     is_correct |-> d.answer[a].is_correct,
     explanation |-> d.answer[a].explanation,
     order_index |-> d.answer[a].order_index,
     question_id |-> d.answer[a].question_id]

\* A student view that keeps the answer's every field, which C3 excludes.
Answer_to_student_dict_leaky(d, a) == Answer_to_dict(d, a)

Answer_to_student_dict(d, a) ==
    [id |-> a,
     text |-> d.answer[a].text,
     order_index |-> d.answer[a].order_index]

Question_to_dict(d, q) ==
    [id |-> q,
     text |-> d.question[q].text,
     question_type |-> d.question[q].question_type,
     explanation |-> d.question[q].explanation,
     points |-> d.question[q].points,
     order_index |-> d.question[q].order_index,
     quiz_id |-> d.question[q].quiz_id,
     answers |-> Map(answers(d, q), LAMBDA a : Answer_to_dict(d, a))]

Question_to_student_dict(d, q) ==
    [id |-> q,
     text |-> d.question[q].text,
     question_type |-> d.question[q].question_type,
     points |-> d.question[q].points,
     order_index |-> d.question[q].order_index,
     answers |-> Map(answers(d, q), LAMBDA a : Answer_to_student_dict(d, a))]

\* A lookup that takes the question's first answer for the correct one,
\* which C6 excludes.
get_correct_answer_first(d, q) ==
    LET mine == {a \in DOMAIN d.answer : d.answer[a].question_id = q}
    IN IF mine = {} THEN None ELSE Some(SetToSeq(mine)[1])

\* Question.get_correct_answer: the first answer flagged correct, or None.
get_correct_answer(d, q) ==
    LET flagged == {a \in DOMAIN d.answer :
                      d.answer[a].question_id = q /\ d.answer[a].is_correct}
    IN IF flagged = {} THEN None ELSE Some(SetToSeq(flagged)[1])

\* Quiz.to_dict(include_questions=False)
Quiz_to_dict(d, id) ==
    [id |-> id,
     title |-> d.quiz[id].title,
     description |-> d.quiz[id].description,
     category |-> d.quiz[id].category,
     difficulty_level |-> d.quiz[id].difficulty_level,
     time_limit |-> d.quiz[id].time_limit,
     is_active |-> d.quiz[id].is_active,
     created_by |-> d.quiz[id].created_by,
     question_count |-> Len(questions(d, id))]

\* Quiz.to_dict(include_questions=True)
Quiz_to_dict_with_questions(d, id) ==
    [id |-> id,
     title |-> d.quiz[id].title,
     description |-> d.quiz[id].description,
     category |-> d.quiz[id].category,
     difficulty_level |-> d.quiz[id].difficulty_level,
     time_limit |-> d.quiz[id].time_limit,
     is_active |-> d.quiz[id].is_active,
     created_by |-> d.quiz[id].created_by,
     question_count |-> Len(questions(d, id)),
     questions |-> Map(questions(d, id), LAMBDA q : Question_to_dict(d, q))]

Quiz_to_student_dict(d, id) ==
    [id |-> id,
     title |-> d.quiz[id].title,
     description |-> d.quiz[id].description,
     category |-> d.quiz[id].category,
     difficulty_level |-> d.quiz[id].difficulty_level,
     time_limit |-> d.quiz[id].time_limit,
     question_count |-> Len(questions(d, id)),
     questions |-> Map(questions(d, id), LAMBDA q : Question_to_student_dict(d, q))]

(***************************************************************************)
(* controllers/base_controller.py                                          *)
(***************************************************************************)
success_response(data, message, status_code) ==
    [status |-> status_code, success |-> TRUE, message |-> message,
     data |-> data, error |-> None]

error_response(message, status_code, error_details) ==
    [status |-> status_code, success |-> FALSE, message |-> message,
     data |-> None, error |-> error_details]

\* A validation failure answered without its errors, which C20 excludes.
validation_error_response_plain(errors) ==
    error_response("Validation errors", 422, None)

validation_error_response(errors) ==
    error_response("Validation errors", 422, Some(errors))

\* The wrapper of handle_database_error when the wrapped method raised: the
\* session is rolled back by the caller of this and the response is 500; the
\* error detail is withheld for SQLAlchemy's errors (they have
\* hide_parameters).
database_error == error_response("A database error occurred", 500, None)

\* validate_required_fields(data, ['title', 'questions']): a field is
\* reported when its key is absent, its value is None or (a string) empty.
validate_required_fields(data) ==
    LET missing == {f \in {"title", "questions"} :
                      \/ data[f] = None
                      \/ f = "title" /\ data[f] = Some("")}
    IN [f \in missing |-> f \o " is required"]

(***************************************************************************)
(* controllers/quiz_controller.py                                          *)
(***************************************************************************)
valid_types == {"multiple_choice", "true_false", "fill_blank"}

\* Checks that ask for 1 answer (C2 excludes it) and for 3 (C5 excludes it).
too_few_answers_lax(answers_data) ==
    answers_data = None \/ Len(answers_data[1]) < 1

too_few_answers_strict(answers_data) ==
    answers_data = None \/ Len(answers_data[1]) < 3

\* The 'answers' check of _validate_question_data: the list is missing,
\* empty or shorter than 2.
too_few_answers(answers_data) ==
    answers_data = None \/ Len(answers_data[1]) < 2

_validate_question_data(question_data) ==
    LET bad == {f \in {"text", "answers", "question_type"} :
                  \/ f = "text" /\ question_data.text \in {None, Some("")}
                  \/ f = "answers" /\ too_few_answers(question_data.answers)
                  \/ f = "question_type"
                       /\ Get(question_data.question_type, "multiple_choice")
                            \notin valid_types}
    IN [f \in bad |->
          CASE f = "text" -> "Question text is required"
            [] f = "answers" -> "Question must have at least 2 answer choices"
            [] f = "question_type" ->
                 "Question type must be one of: multiple_choice, true_false, fill_blank"]

_validate_answer_data(answer_data) ==
    [f \in IF answer_data.text \in {None, Some("")} THEN {"text"} ELSE {}
       |-> "Answer text is required"]

\* A check that lets several correct answers pass, which C1 excludes.
wrong_correct_count_lax(correct_answer_count) == correct_answer_count < 1

\* The check after a question's answers are staged: correct_answer_count != 1
\* rejects the quiz.
wrong_correct_count(correct_answer_count) == correct_answer_count # 1

\* The inner loop of create_quiz (lines 83-103) from answer a_index on.  s is
\* the session's view of the tables, n the next keys.  The result is the
\* validation error that ended the loop (or None), the session, the keys and
\* the number of answers flagged correct.
RECURSIVE add_answers(_, _, _, _, _, _, _)
add_answers(s, n, q_index, question_id, answers_data, a_index, correct_answer_count) ==
    IF a_index >= Len(answers_data)
    THEN [error |-> None, s |-> s, n |-> n,
          correct_answer_count |-> correct_answer_count]
    ELSE LET a_data == answers_data[a_index + 1]
             answer_errors == _validate_answer_data(a_data)
             is_correct == Get(a_data.is_correct, FALSE)
             new_answer == [text |-> a_data.text[1],
                            is_correct |-> is_correct,
                            explanation |-> a_data.explanation,
                            order_index |-> a_index,
                            question_id |-> question_id]
         IN IF DOMAIN answer_errors # {}
            THEN [error |-> Some(validation_error_response(
                     ("question_" \o ToString(q_index) \o "_answer_"
                        \o ToString(a_index)) :> answer_errors)),
                  s |-> s, n |-> n,
                  correct_answer_count |-> correct_answer_count]
            ELSE add_answers(
                   [s EXCEPT !.answer = (n.answer :> new_answer) @@ @],
                   [n EXCEPT !.answer = @ + 1],
                   q_index, question_id, answers_data, a_index + 1,
                   IF is_correct THEN correct_answer_count + 1
                                 ELSE correct_answer_count)

\* A loop that reports the correct-answer count of a question only when no
\* later question fails, which C23 excludes.
RECURSIVE add_questions_deferred_count(_, _, _, _, _)
add_questions_deferred_count(s, n, quiz_id, questions_data, q_index) ==
    IF q_index >= Len(questions_data)
    THEN [error |-> None, s |-> s, n |-> n]
    ELSE LET q_data == questions_data[q_index + 1]
             question_errors == _validate_question_data(q_data)
             new_question == [text |-> q_data.text[1],
                              question_type |->
                                Get(q_data.question_type, "multiple_choice"),
                              explanation |-> q_data.explanation,
                              points |-> Get(q_data.points, 1),
                              order_index |-> q_index,
                              quiz_id |-> quiz_id]
             s1 == [s EXCEPT !.question = (n.question :> new_question) @@ @]
             n1 == [n EXCEPT !.question = @ + 1]
             added == add_answers(s1, n1, q_index, n.question,
                                  q_data.answers[1], 0, 0)
             rest == add_questions_deferred_count(added.s, added.n, quiz_id,
                                                  questions_data, q_index + 1)
         IN IF DOMAIN question_errors # {}
            THEN [error |-> Some(validation_error_response(
                     ("question_" \o ToString(q_index)) :> question_errors)),
                  s |-> s, n |-> n]
            ELSE IF added.error # None
            THEN [error |-> added.error, s |-> added.s, n |-> added.n]
            ELSE IF rest.error # None
            THEN rest
            ELSE IF wrong_correct_count(added.correct_answer_count)
            THEN [error |-> Some(error_response(
                     "Question " \o ToString(q_index + 1)
                        \o " must have exactly one correct answer", 422, None)),
                  s |-> added.s, n |-> added.n]
            ELSE rest

\* The outer loop of create_quiz (lines 63-110) from question q_index on.  The
\* result is the response of the first failing question (or None when every
\* question passed), the session and the keys.
RECURSIVE add_questions(_, _, _, _, _)
add_questions(s, n, quiz_id, questions_data, q_index) ==
    IF q_index >= Len(questions_data)
    THEN [error |-> None, s |-> s, n |-> n]
    ELSE LET q_data == questions_data[q_index + 1]
             question_errors == _validate_question_data(q_data)
             new_question == [text |-> q_data.text[1],
                              question_type |->
                                Get(q_data.question_type, "multiple_choice"),
                              explanation |-> q_data.explanation,
                              points |-> Get(q_data.points, 1),
                              order_index |-> q_index,
                              quiz_id |-> quiz_id]
             s1 == [s EXCEPT !.question = (n.question :> new_question) @@ @]
             n1 == [n EXCEPT !.question = @ + 1]
             added == add_answers(s1, n1, q_index, n.question,
                                  q_data.answers[1], 0, 0)
         IN IF DOMAIN question_errors # {}
            THEN [error |-> Some(validation_error_response(
                     ("question_" \o ToString(q_index)) :> question_errors)),
                  s |-> s, n |-> n]
            ELSE IF added.error # None
            THEN [error |-> added.error, s |-> added.s, n |-> added.n]
            ELSE IF wrong_correct_count(added.correct_answer_count)
            THEN [error |-> Some(error_response(
                     "Question " \o ToString(q_index + 1)
                        \o " must have exactly one correct answer", 422, None)),
                  s |-> added.s, n |-> added.n]
            ELSE add_questions(added.s, added.n, quiz_id, questions_data,
                               q_index + 1)

\* QuizController.create_quiz on tables d with next keys n.  The result is the
\* response, the session's view of the tables when the controller returns,
\* the keys drawn and whether db.session.commit() ran.
create_quiz(d, n, data, created_by) ==
    LET validation_errors == validate_required_fields(data)
        new_quiz == [title |-> data.title[1],
                     description |-> data.description,
                     category |-> data.category,
                     difficulty_level |-> Get(data.difficulty_level, "beginner"),
                     time_limit |-> data.time_limit,
                     is_active |-> TRUE,
                     created_by |-> created_by]
        s0 == [d EXCEPT !.quiz = (n.quiz :> new_quiz) @@ @]
        n0 == [n EXCEPT !.quiz = @ + 1]
        built == add_questions(s0, n0, n.quiz, data.questions[1], 0)
    IN IF DOMAIN validation_errors # {}
       THEN [resp |-> validation_error_response(validation_errors),
             session |-> d, n |-> n, committed |-> FALSE]
       ELSE IF Len(data.questions[1]) = 0
       THEN [resp |-> error_response("Quiz must have at least one question",
                                     422, None),
             session |-> d, n |-> n, committed |-> FALSE]
       ELSE IF built.error # None
       THEN [resp |-> built.error[1], session |-> built.s, n |-> built.n,
             committed |-> FALSE]
       ELSE [resp |-> success_response(
                        Some(Quiz_to_dict_with_questions(built.s, n.quiz)),
                        "Quiz created successfully!", 201),
             session |-> built.s, n |-> built.n, committed |-> TRUE]

\* The rows of session s that table rows of d do not hold: what the session
\* still has to write.
uncommitted(s, d) ==
    [quiz |-> [k \in DOMAIN s.quiz \ DOMAIN d.quiz |-> s.quiz[k]],
     question |-> [k \in DOMAIN s.question \ DOMAIN d.question |-> s.question[k]],
     answer |-> [k \in DOMAIN s.answer \ DOMAIN d.answer |-> s.answer[k]]]

\* QuizController.get_quiz
get_quiz(d, quiz_id, for_student) ==
    IF quiz_id \notin DOMAIN d.quiz
    THEN error_response("Quiz not found", 404, None)
    ELSE IF ~d.quiz[quiz_id].is_active
    THEN error_response("Quiz is not currently available", 403, None)
    ELSE success_response(
           Some(IF for_student THEN Quiz_to_student_dict(d, quiz_id)
                               ELSE Quiz_to_dict_with_questions(d, quiz_id)),
           "Quiz retrieved successfully", 200)

\* BaseController.paginate_query over the ordered result rows
paginate_query(items, page, per_page) ==
    LET capped == IF per_page < 100 THEN per_page ELSE 100
        first == (page - 1) * capped + 1
        last == IF page * capped < Len(items) THEN page * capped ELSE Len(items)
    IN [items |-> IF first > last THEN <<>> ELSE SubSeq(items, first, last),
        total |-> Len(items),
        pages |-> (Len(items) + capped - 1) \div capped,
        current_page |-> page,
        per_page |-> capped,
        has_next |-> page * capped < Len(items),
        has_prev |-> page > 1]

Reverse(s) == [i \in 1..Len(s) |-> s[Len(s) + 1 - i]]

\* QuizController.get_all_quizzes: newest first (created_at descending).
get_all_quizzes(d, page, per_page, category, difficulty, active_only) ==
    LET matching == {id \in DOMAIN d.quiz :
                       /\ active_only => d.quiz[id].is_active
                       /\ category # None => d.quiz[id].category = category
                       /\ difficulty # None =>
                            d.quiz[id].difficulty_level = difficulty[1]}
        pagination_data == paginate_query(Reverse(SetToSeq(matching)),
                                          page, per_page)
    IN success_response(
         Some([quizzes |-> Map(pagination_data.items,
                               LAMBDA id : Quiz_to_dict(d, id)),
               pagination |-> [total |-> pagination_data.total,
                               pages |-> pagination_data.pages,
                               current_page |-> pagination_data.current_page,
                               per_page |-> pagination_data.per_page,
                               has_next |-> pagination_data.has_next,
                               has_prev |-> pagination_data.has_prev]]),
         "Quizzes retrieved successfully", 200)

\* The scalar assignments of update_quiz (lines 220-231): a key of data that
\* is present replaces the field.
apply_update(quiz, data) ==
    [quiz EXCEPT
       !.title = IF data.title # None THEN data.title[1] ELSE @,
       !.description = IF data.description # None THEN data.description ELSE @,
       !.category = IF data.category # None THEN data.category ELSE @,
       !.difficulty_level =
           IF data.difficulty_level # None THEN data.difficulty_level[1] ELSE @,
       !.time_limit = IF data.time_limit # None THEN data.time_limit ELSE @,
       !.is_active = IF data.is_active # None THEN data.is_active[1] ELSE @]

\* JSON null where a string is expected.
JsonNull == "(null)"

\* Quiz.title is nullable=False: a flush that writes a title of None raises
\* IntegrityError.
title_not_null(d) == \A id \in DOMAIN d.quiz : d.quiz[id].title # JsonNull

\* QuizController.update_quiz: the response and the tables after the commit,
\* or after the rollback of handle_database_error when the commit raised.
update_quiz(d, quiz_id, data) ==
    IF quiz_id \notin DOMAIN d.quiz
    THEN [resp |-> error_response("Quiz not found", 404, None), db |-> d]
    ELSE LET d1 == [d EXCEPT !.quiz[quiz_id] = apply_update(@, data)]
         IN IF ~title_not_null(d1)
            THEN [resp |-> database_error, db |-> d]
            ELSE [resp |-> success_response(
                             Some(Quiz_to_dict_with_questions(d1, quiz_id)),
                             "Quiz updated successfully", 200),
                  db |-> d1]

\* A delete without the cascade, which C10 excludes.
cascade_delete_quiz_only(d, quiz_id) ==
    [d EXCEPT !.quiz = [k \in DOMAIN d.quiz \ {quiz_id} |-> d.quiz[k]]]

\* db.session.delete(quiz) with the relationships' cascade='all,
\* delete-orphan' (Quiz.questions, Question.answers): the quiz row, its
\* question rows and their answer rows go.
cascade_delete(d, quiz_id) ==
    LET qs == {q \in DOMAIN d.question : d.question[q].quiz_id = quiz_id}
        as == {a \in DOMAIN d.answer : d.answer[a].question_id \in qs}
    IN [quiz |-> [k \in DOMAIN d.quiz \ {quiz_id} |-> d.quiz[k]],
        question |-> [k \in DOMAIN d.question \ qs |-> d.question[k]],
        answer |-> [k \in DOMAIN d.answer \ as |-> d.answer[k]]]

\* QuizController.delete_quiz: the response and the tables after the commit.
delete_quiz(d, quiz_id) ==
    IF quiz_id \notin DOMAIN d.quiz
    THEN [resp |-> error_response("Quiz not found", 404, None), db |-> d]
    ELSE [resp |-> success_response(None,
                     "Quiz '" \o d.quiz[quiz_id].title \o "' deleted successfully",
                     200),
          db |-> cascade_delete(d, quiz_id)]

\* A failing operation after which what the session holds is kept, which
\* C17 excludes.
no_rollback(d, held) == held

\* db.session.rollback() in the wrapper of handle_database_error: of what
\* the session holds (held) nothing stays, the tables are as they were (d).
rollback(d, held) == d

\* The flushes and the commit create_quiz reaches on this body: none when the
\* body fails the checks of lines 39-47, else the flush of the quiz, the
\* flush of every question added to the session and, when no question
\* failed, the commit.
persistence_operations(d, n, data, created_by) ==
    LET r == create_quiz(d, n, data, created_by)
    IN IF r.session = d THEN 0
       ELSE 1 + Cardinality(DOMAIN r.session.question \ DOMAIN d.question)
              + (IF r.committed THEN 1 ELSE 0)

\* create_quiz under its decorator when the fault-th flush or commit it
\* reaches raises (fault = 0: none raises).
create_quiz_failing(d, n, data, created_by, fault) ==
    LET r == create_quiz(d, n, data, created_by)
    IN IF fault \in 1..persistence_operations(d, n, data, created_by)
       THEN [resp |-> database_error, session |-> rollback(d, r.session),
             n |-> n, committed |-> FALSE]
       ELSE r

\* update_quiz under its decorator when its commit raises (fault = 1).
update_quiz_failing(d, quiz_id, data, fault) ==
    IF quiz_id \in DOMAIN d.quiz /\ fault = 1
    THEN [resp |-> database_error,
          db |-> rollback(d, [d EXCEPT !.quiz[quiz_id] = apply_update(@, data)])]
    ELSE update_quiz(d, quiz_id, data)

\* delete_quiz under its decorator when its commit raises (fault = 1).
delete_quiz_failing(d, quiz_id, fault) ==
    IF quiz_id \in DOMAIN d.quiz /\ fault = 1
    THEN [resp |-> database_error, db |-> rollback(d, cascade_delete(d, quiz_id))]
    ELSE delete_quiz(d, quiz_id)

(***************************************************************************)
(* controllers/quiz_session_controller.py                                  *)
(***************************************************************************)
\* round(num / den, 2) in hundredths, den > 0: the nearest hundredth, an
\* exact tie going to the even one (Python's round on a tie it can represent).
Round2(num, den) ==
    LET scaled == 100 * num
        fl == scaled \div den
        rem == scaled - fl * den
    IN IF 2 * rem < den THEN fl
       ELSE IF 2 * rem > den THEN fl + 1
       ELSE IF fl % 2 = 0 THEN fl ELSE fl + 1

\* A percentage is the exact rational num / den (den > 0).
AtLeast(percentage, threshold) == percentage.num >= threshold * percentage.den

\* A guard that answers 100 for an empty total, which C9 excludes.
percent_of_full(x, y) ==
    IF y > 0 THEN [num |-> 100 * x, den |-> y] ELSE [num |-> 100, den |-> 1]

\* x / y * 100 if y > 0 else 0
percent_of(x, y) ==
    IF y > 0 THEN [num |-> 100 * x, den |-> y] ELSE [num |-> 0, den |-> 1]

\* Thresholds with exclusive lower bounds, which C7 excludes.
_calculate_grade_strict(percentage) ==
    IF percentage.num > 90 * percentage.den THEN "A"
    ELSE IF percentage.num > 80 * percentage.den THEN "B"
    ELSE IF percentage.num > 70 * percentage.den THEN "C"
    ELSE IF percentage.num > 60 * percentage.den THEN "D"
    ELSE "F"

\* QuizSessionController._calculate_grade
_calculate_grade(percentage) ==
    IF AtLeast(percentage, 90) THEN "A"
    ELSE IF AtLeast(percentage, 80) THEN "B"
    ELSE IF AtLeast(percentage, 70) THEN "C"
    ELSE IF AtLeast(percentage, 60) THEN "D"
    ELSE "F"

\* Feedback with exclusive lower bounds, which C21 excludes.
_generate_performance_feedback_strict(percentage, difficulty_level) ==
    IF percentage.num > 90 * percentage.den
    THEN [message |-> "Excellent work! You've mastered this material.",
          suggestions |->
            <<"Consider trying a more challenging " \o difficulty_level \o " quiz",
              "You're ready to move on to advanced topics">>]
    ELSE IF percentage.num > 80 * percentage.den
    THEN [message |-> "Great job! You have a solid understanding of the material.",
          suggestions |->
            <<"Review the questions you missed for even better results",
              "You're doing well - keep practicing!">>]
    ELSE IF percentage.num > 70 * percentage.den
    THEN [message |-> "Good work! You're getting the hang of it.",
          suggestions |->
            <<"Focus on reviewing the areas where you made mistakes",
              "Try some practice exercises to strengthen weak areas">>]
    ELSE IF percentage.num > 60 * percentage.den
    THEN [message |-> "You're making progress, but there's room for improvement.",
          suggestions |->
            <<"Review the material and try again",
              "Consider studying the explanations for incorrect answers",
              "Practice with similar quizzes to build confidence">>]
    ELSE [message |-> "This is a challenging topic - don't give up!",
          suggestions |->
            <<"Review the study material carefully",
              "Start with easier quizzes to build your foundation",
              "Consider getting help from a teacher or study group",
              "Take your time and try again when you feel ready">>]

\* QuizSessionController._generate_performance_feedback
_generate_performance_feedback(percentage, difficulty_level) ==
    IF AtLeast(percentage, 90)
    THEN [message |-> "Excellent work! You've mastered this material.",
          suggestions |->
            <<"Consider trying a more challenging " \o difficulty_level \o " quiz",
              "You're ready to move on to advanced topics">>]
    ELSE IF AtLeast(percentage, 80)
    THEN [message |-> "Great job! You have a solid understanding of the material.",
          suggestions |->
            <<"Review the questions you missed for even better results",
              "You're doing well - keep practicing!">>]
    ELSE IF AtLeast(percentage, 70)
    THEN [message |-> "Good work! You're getting the hang of it.",
          suggestions |->
            <<"Focus on reviewing the areas where you made mistakes",
              "Try some practice exercises to strengthen weak areas">>]
    ELSE IF AtLeast(percentage, 60)
    THEN [message |-> "You're making progress, but there's room for improvement.",
          suggestions |->
            <<"Review the material and try again",
              "Consider studying the explanations for incorrect answers",
              "Practice with similar quizzes to build confidence">>]
    ELSE [message |-> "This is a challenging topic - don't give up!",
          suggestions |->
            <<"Review the study material carefully",
              "Start with easier quizzes to build your foundation",
              "Consider getting help from a teacher or study group",
              "Take your time and try again when you feel ready">>]

\* A submitted id is a JSON value: the integer n, the string of n's decimal
\* digits, the number n + 0.5, or a string that is no number.  int() gives n
\* for the first two, truncates the third to n and raises ValueError on the
\* last.
IntId(n) == [kind |-> "int", n |-> n]
StrId(n) == [kind |-> "str", n |-> n]
FloatId(n) == [kind |-> "float", n |-> n]
BadId == [kind |-> "bad", n |-> 0]
int_ok(v) == v.kind # "bad"

\* The entries the comprehension of lines 135-139 keeps: those with both keys.
keyed(submitted_answers) ==
    {i \in 1..Len(submitted_answers) :
       /\ submitted_answers[i].question_id # None
       /\ submitted_answers[i].answer_id # None}

\* int() raises ValueError on some kept entry.
lookup_raises(submitted_answers) ==
    \E i \in keyed(submitted_answers) :
       \/ ~int_ok(submitted_answers[i].question_id[1])
       \/ ~int_ok(submitted_answers[i].answer_id[1])

\* A lookup in which the first kept entry for a question stays, which C16
\* excludes.
lookup_first(submitted_answers, question_id) ==
    LET hits == {i \in keyed(submitted_answers) :
                   submitted_answers[i].question_id[1].n = question_id}
    IN IF hits = {} THEN None
       ELSE Some(submitted_answers[CHOOSE i \in hits : \A j \in hits : i <= j]
                   .answer_id[1].n)

\* submitted_lookup.get(question_id): the answer id of the last kept entry
\* for the question (a later key of a dict comprehension replaces an earlier).
submitted_lookup(submitted_answers, question_id) ==
    LET hits == {i \in keyed(submitted_answers) :
                   submitted_answers[i].question_id[1].n = question_id}
    IN IF hits = {} THEN None
       ELSE Some(submitted_answers[CHOOSE i \in hits : \A j \in hits : j <= i]
                   .answer_id[1].n)

\* A test that takes any submitted id for correct, which C4 excludes.
answer_is_correct_any(submitted_answer_id, correct_answer) ==
    submitted_answer_id # None /\ submitted_answer_id[1] # 0

\* Lines 146-149: the answer counts when an id was submitted (not None, not
\* 0), a correct answer exists and the two ids are equal.
answer_is_correct(submitted_answer_id, correct_answer) ==
    /\ submitted_answer_id # None /\ submitted_answer_id[1] # 0
    /\ correct_answer # None
    /\ submitted_answer_id[1] = correct_answer[1]

\* Lines 143-181: the result record of question q.
question_result(d, q, submitted_answers) ==
    LET submitted_answer_id == submitted_lookup(submitted_answers, q)
        correct_answer == get_correct_answer(d, q)
        is_correct == answer_is_correct(submitted_answer_id, correct_answer)
        found == IF submitted_answer_id = None \/ submitted_answer_id[1] = 0
                 THEN {}
                 ELSE {a \in DOMAIN d.answer :
                         /\ d.answer[a].question_id = q
                         /\ a = submitted_answer_id[1]}
    IN [question_id |-> q,
        question_text |-> d.question[q].text,
        question_type |-> d.question[q].question_type,
        points_possible |-> d.question[q].points,
        points_earned |-> IF is_correct THEN d.question[q].points ELSE 0,
        is_correct |-> is_correct,
        submitted_answer |->
          IF found = {} THEN None
          ELSE LET a == CHOOSE a \in found : TRUE
               IN Some([id |-> a, text |-> d.answer[a].text]),
        correct_answer |->
          IF correct_answer = None THEN None
          ELSE Some([id |-> correct_answer[1],
                     text |-> d.answer[correct_answer[1]].text,
                     explanation |-> d.answer[correct_answer[1]].explanation]),
        question_explanation |-> d.question[q].explanation]

\* Totals that add a question's points whether or not it was answered
\* rightly, which C8 excludes.
tally_all(acc, points, is_correct) ==
    [correct_count |-> acc.correct_count + (IF is_correct THEN 1 ELSE 0),
     total_points_earned |-> acc.total_points_earned + points]

\* Lines 151-153: the running totals after a question.
tally(acc, points, is_correct) ==
    [correct_count |-> acc.correct_count + (IF is_correct THEN 1 ELSE 0),
     total_points_earned |->
       acc.total_points_earned + (IF is_correct THEN points ELSE 0)]

\* A loop that builds a record only for the questions the submission
\* names, which C15 excludes.
RECURSIVE process_questions_answered_only(_, _, _, _, _, _)
process_questions_answered_only(d, qs, submitted_answers, i, acc, results) ==
    IF i > Len(qs)
    THEN [correct_count |-> acc.correct_count,
          total_points_earned |-> acc.total_points_earned,
          question_results |-> results]
    ELSE LET r == question_result(d, qs[i], submitted_answers)
         IN process_questions_answered_only(
              d, qs, submitted_answers, i + 1,
              tally(acc, d.question[qs[i]].points, r.is_correct),
              IF submitted_lookup(submitted_answers, qs[i]) = None
              THEN results
              ELSE Append(results, r))

\* The loop of lines 142-183 from the i-th question of qs on: the running
\* totals and the result records so far.
RECURSIVE process_questions(_, _, _, _, _, _)
process_questions(d, qs, submitted_answers, i, acc, question_results) ==
    IF i > Len(qs)
    THEN [correct_count |-> acc.correct_count,
          total_points_earned |-> acc.total_points_earned,
          question_results |-> question_results]
    ELSE LET r == question_result(d, qs[i], submitted_answers)
         IN process_questions(d, qs, submitted_answers, i + 1,
                              tally(acc, d.question[qs[i]].points, r.is_correct),
                              Append(question_results, r))

\* QuizSessionController._process_quiz_submission, when int() accepts every
\* kept id (submitted_at is not modelled).
_process_quiz_submission(d, quiz_id, submitted_answers) ==
    LET qs == questions(d, quiz_id)
        total_questions == Len(qs)
        total_points_possible == SumSeq(Map(qs, LAMBDA q : d.question[q].points))
        done == process_questions(d, qs, submitted_answers, 1,
                                  [correct_count |-> 0, total_points_earned |-> 0],
                                  <<>>)
        percentage_correct == percent_of(done.correct_count, total_questions)
        points_percentage ==
            percent_of(done.total_points_earned, total_points_possible)
    IN [quiz_info |-> [id |-> quiz_id,
                       title |-> d.quiz[quiz_id].title,
                       category |-> d.quiz[quiz_id].category,
                       difficulty_level |-> d.quiz[quiz_id].difficulty_level],
        score_summary |->
          [correct_answers |-> done.correct_count,
           total_questions |-> total_questions,
           percentage_correct |->
             Round2(percentage_correct.num, percentage_correct.den),
           points_earned |-> done.total_points_earned,
           total_points_possible |-> total_points_possible,
           points_percentage |->
             Round2(points_percentage.num, points_percentage.den),
           grade |-> _calculate_grade(percentage_correct)],
        question_results |-> done.question_results,
        performance_feedback |->
          _generate_performance_feedback(percentage_correct,
                                         d.quiz[quiz_id].difficulty_level)]

\* What Flask answers when a view raises: the blueprint's 500 handler.
internal_error == error_response("Internal server error", 500, None)

\* A started_at value of a request body, as the code can tell them apart:
\*   absent      the key is missing
\*   nonstring   a JSON value without .replace (a number, null)
\*   unparsable  a string datetime.fromisoformat rejects
\*   naive       an ISO timestamp without offset, elapsed seconds before now
\*   aware       an ISO timestamp with 'Z' or an offset
StartedAt(kind, elapsed) == [kind |-> kind, elapsed |-> elapsed]

\* Lines 94-105 of submit_quiz: "exceeded", "raises" (an exception the except
\* clause does not catch) or "ok".
time_limit_check(time_limit, started_at) ==
    IF Get(time_limit, 0) = 0 \/ started_at.kind = "absent" THEN "ok"
    ELSE IF started_at.kind = "nonstring" THEN "raises"
    ELSE IF started_at.kind = "unparsable" THEN "ok"
    ELSE IF started_at.kind = "aware" THEN "raises"
    ELSE IF started_at.elapsed > 60 * time_limit[1] THEN "exceeded"
    ELSE "ok"

\* A start that does not look at is_active, which C27 excludes.
start_quiz_session_any(d, quiz_id, student_id) ==
    IF quiz_id \notin DOMAIN d.quiz
    THEN error_response("Quiz not found", 404, None)
    ELSE success_response(
           Some([quiz |-> Quiz_to_student_dict(d, quiz_id),
                 session_info |->
                   [student_id |-> student_id,
                    time_limit_minutes |-> d.quiz[quiz_id].time_limit,
                    has_deadline |-> Get(d.quiz[quiz_id].time_limit, 0) # 0]]),
           "Quiz session started successfully", 200)

\* QuizSessionController.start_quiz_session
start_quiz_session(d, quiz_id, student_id) ==
    IF quiz_id \notin DOMAIN d.quiz
    THEN error_response("Quiz not found", 404, None)
    ELSE IF ~d.quiz[quiz_id].is_active
    THEN error_response("Quiz is not currently available", 403, None)
    ELSE success_response(
           Some([quiz |-> Quiz_to_student_dict(d, quiz_id),
                 session_info |->
                   [student_id |-> student_id,
                    time_limit_minutes |-> d.quiz[quiz_id].time_limit,
                    has_deadline |-> Get(d.quiz[quiz_id].time_limit, 0) # 0]]),
           "Quiz session started successfully", 200)

\* QuizSessionController.submit_quiz
submit_quiz(d, quiz_id, submission_data) ==
    IF quiz_id \notin DOMAIN d.quiz
    THEN error_response("Quiz not found", 404, None)
    ELSE IF ~d.quiz[quiz_id].is_active
    THEN error_response("Quiz is not currently available", 403, None)
    ELSE IF submission_data.answers = None
    THEN error_response("Submission must include answers", 422, None)
    ELSE LET timing == time_limit_check(d.quiz[quiz_id].time_limit,
                                        submission_data.started_at)
         IN IF timing = "exceeded"
            THEN error_response("Time limit exceeded for this quiz", 422, None)
            ELSE IF timing = "raises" \/ lookup_raises(submission_data.answers[1])
            THEN internal_error
            ELSE success_response(
                   Some(_process_quiz_submission(d, quiz_id,
                                                 submission_data.answers[1])),
                   "Quiz submitted successfully!", 200)

\* Statistics that answer for an id without a quiz as for a quiz without
\* questions, which C18 excludes.
get_quiz_statistics_any(d, quiz_id) ==
    success_response(
      Some([quiz_id |-> quiz_id,
            quiz_title |-> IF quiz_id \in DOMAIN d.quiz
                           THEN d.quiz[quiz_id].title ELSE "",
            total_questions |-> Len(questions(d, quiz_id)),
            total_points |->
              SumSeq(Map(questions(d, quiz_id),
                         LAMBDA q : d.question[q].points))]),
      "Quiz statistics retrieved (placeholder)", 200)

\* QuizSessionController.get_quiz_statistics
get_quiz_statistics(d, quiz_id) ==
    IF quiz_id \notin DOMAIN d.quiz
    THEN error_response("Quiz not found", 404, None)
    ELSE success_response(
           Some([quiz_id |-> quiz_id,
                 quiz_title |-> d.quiz[quiz_id].title,
                 total_questions |-> Len(questions(d, quiz_id)),
                 total_points |->
                   SumSeq(Map(questions(d, quiz_id),
                              LAMBDA q : d.question[q].points))]),
           "Quiz statistics retrieved (placeholder)", 200)

(***************************************************************************)
(* routes/quiz_session_routes.py                                           *)
(***************************************************************************)
\* A time check that reports expiry only when less than no time remains,
\* which C19 excludes.
check_time_remaining_strict(d, quiz_id, data) ==
    IF data = None \/ data[1].started_at.kind = "absent"
    THEN error_response("Missing 'started_at' field", 422, None)
    ELSE IF quiz_id \notin DOMAIN d.quiz
    THEN error_response("Quiz not found", 404, None)
    ELSE IF Get(d.quiz[quiz_id].time_limit, 0) = 0
    THEN success_response(Some([unlimited |-> TRUE]),
                          "This quiz has no time limit", 200)
    ELSE LET started_at == data[1].started_at
             limit == 60 * d.quiz[quiz_id].time_limit[1]
             remaining == IF limit - started_at.elapsed > 0
                          THEN limit - started_at.elapsed ELSE 0
         IN IF started_at.kind = "nonstring" THEN internal_error
            ELSE IF started_at.kind \in {"unparsable", "aware"}
            THEN error_response("Invalid 'started_at' format", 422, None)
            ELSE success_response(
                   Some([time_limit_minutes |-> d.quiz[quiz_id].time_limit[1],
                         elapsed_minutes |-> Round2(started_at.elapsed, 60),
                         remaining_minutes |-> Round2(remaining, 60),
                         is_expired |-> remaining < 0]),
                   "Time check completed", 200)

\* check_time_remaining
check_time_remaining(d, quiz_id, data) ==
    IF data = None \/ data[1].started_at.kind = "absent"
    THEN error_response("Missing 'started_at' field", 422, None)
    ELSE IF quiz_id \notin DOMAIN d.quiz
    THEN error_response("Quiz not found", 404, None)
    ELSE IF Get(d.quiz[quiz_id].time_limit, 0) = 0
    THEN success_response(Some([unlimited |-> TRUE]),
                          "This quiz has no time limit", 200)
    ELSE LET started_at == data[1].started_at
             limit == 60 * d.quiz[quiz_id].time_limit[1]
             remaining == IF limit - started_at.elapsed > 0
                          THEN limit - started_at.elapsed ELSE 0
         IN IF started_at.kind = "nonstring" THEN internal_error
            ELSE IF started_at.kind \in {"unparsable", "aware"}
            THEN error_response("Invalid 'started_at' format", 422, None)
            ELSE success_response(
                   Some([time_limit_minutes |-> d.quiz[quiz_id].time_limit[1],
                         elapsed_minutes |-> Round2(started_at.elapsed, 60),
                         remaining_minutes |-> Round2(remaining, 60),
                         is_expired |-> remaining <= 0]),
                   "Time check completed", 200)

\* The loop of validate_answers_format (lines 132-147) from entry i (counted
\* from 0) on: the errors of the entries, in order.  int() is tried on the
\* ids an entry has (0 stands for a missing one).
RECURSIVE format_errors(_, _)
format_errors(answers_data, i) ==
    IF i >= Len(answers_data) THEN <<>>
    ELSE LET answer == answers_data[i + 1]
             no_question == IF answer.question_id = None
                            THEN <<"Answer " \o ToString(i) \o " missing 'question_id'">>
                            ELSE <<>>
             no_answer == IF answer.answer_id = None
                          THEN <<"Answer " \o ToString(i) \o " missing 'answer_id'">>
                          ELSE <<>>
             no_integer == IF /\ int_ok(Get(answer.question_id, IntId(0)))
                              /\ int_ok(Get(answer.answer_id, IntId(0)))
                           THEN <<>>
                           ELSE <<"Answer " \o ToString(i) \o " IDs must be integers">>
         IN no_question \o no_answer \o no_integer
              \o format_errors(answers_data, i + 1)

\* validate_answers_format, for a body that is not empty
validate_answers_format(data) ==
    IF data.answers = None
    THEN error_response("Missing 'answers' field", 422, None)
    ELSE LET errors == format_errors(data.answers[1], 0)
         IN IF errors # <<>>
            THEN validation_error_response("format_errors" :> errors)
            ELSE success_response(
                   Some([valid |-> TRUE, answer_count |-> Len(data.answers[1])]),
                   "Answer format is valid", 200)

(***************************************************************************)
(* The requests of the model.                                              *)
(***************************************************************************)
QuizIds == 1..MaxQuizzes

Answer(text, is_correct, explanation) ==
    [text |-> text, is_correct |-> is_correct, explanation |-> explanation]

Question(text, question_type, points, answers_data) ==
    [text |-> text, question_type |-> question_type, points |-> points,
     explanation |-> None, answers |-> answers_data]

\* The i-th question of a payload when create_quiz accepts it: they differ
\* in type, point value (1, 2, 0, 1, ...), number of answers, place of the
\* correct answer and in the keys they leave out.
ValidQuestion(i) ==
    CASE i % 3 = 1 ->
           Question(Some("Hola means?"), None, None,
                    Some(<<Answer(Some("hello"), Some(TRUE), Some("a greeting")),
                           Answer(Some("bye"), None, None)>>))
      [] i % 3 = 2 ->
           Question(Some("Gato is a cat"), Some("true_false"), Some(2),
                    Some(<<Answer(Some("false"), Some(FALSE), None),
                           Answer(Some("true"), Some(TRUE), None),
                           Answer(Some("maybe"), Some(FALSE), None)>>))
      [] i % 3 = 0 ->
           Question(Some("Adios is ..."), Some("fill_blank"), Some(0),
                    Some(<<Answer(Some("hi"), None, Some("no")),
                           Answer(Some("bye"), Some(TRUE), None)>>))

ValidQuestions(n) == [i \in 1..n |-> ValidQuestion(i)]

\* Questions with a number of answers flagged correct other than 1 and no
\* other defect.
MiscountedQuestions ==
    {Question(Some("Perro means?"), None, None,
              Some(<<Answer(Some("dog"), Some(FALSE), None),
                     Answer(Some("cat"), None, None)>>)),
     Question(Some("Si means?"), Some("fill_blank"), Some(3),
              Some(<<Answer(Some("yes"), Some(TRUE), None),
                     Answer(Some("no"), Some(FALSE), None),
                     Answer(Some("yep"), Some(TRUE), None)>>))}

\* Questions with a field error or an answer without text.
MalformedQuestions ==
    {Question(None, Some("essay"), None, None),
     Question(Some("One answer"), None, None,
              Some(<<Answer(Some("only"), Some(TRUE), None)>>)),
     Question(Some("Blank answer"), None, None,
              Some(<<Answer(Some("x"), Some(TRUE), None),
                     Answer(Some(""), Some(FALSE), None)>>))}

\* Question lists: up to MaxQuestions valid questions, or fewer valid ones
\* followed by one question create_quiz rejects.
QuestionLists ==
    {ValidQuestions(n) : n \in 0..MaxQuestions}
      \cup {Append(ValidQuestions(n), bad) :
              n \in 0..(MaxQuestions - 1),
              bad \in MiscountedQuestions \cup MalformedQuestions}

CreateBody(title, questions_data) ==
    [title |-> title, description |-> None, category |-> None,
     difficulty_level |-> None, time_limit |-> None,
     questions |-> questions_data]

\* JSON bodies of POST /api/v1/quizzes.
CreateBodies ==
    {CreateBody(Some("Spanish"), Some(qs)) : qs \in QuestionLists}
      \cup {CreateBody(None, Some(ValidQuestions(1)))}
      \cup {CreateBody(Some("Spanish"), None), CreateBody(None, None)}

UpdateBody(is_active) ==
    [title |-> None, description |-> None, category |-> None,
     difficulty_level |-> None, time_limit |-> None, is_active |-> is_active]

\* JSON bodies of PUT /api/v1/quizzes/<id>.
UpdateBodies == {UpdateBody(None), UpdateBody(Some(FALSE)), UpdateBody(Some(TRUE))}

Entry(question_id, answer_id) ==
    [question_id |-> question_id, answer_id |-> answer_id]

SubmitBody(answers_data, started_at) ==
    [answers |-> answers_data, started_at |-> started_at]

\* JSON bodies of POST /api/v1/quiz-sessions/submit/<id>.
SubmitBodies ==
    {SubmitBody(None, StartedAt("absent", 0)),
     SubmitBody(Some(<<>>), StartedAt("absent", 0)),
     SubmitBody(Some(<<Entry(Some(IntId(1)), Some(IntId(1)))>>),
                StartedAt("naive", 60))}

\* JSON bodies of POST /api/v1/quiz-sessions/time-check/<id>.
TimeCheckBodies ==
    {None, Some([started_at |-> StartedAt("absent", 0)]),
     Some([started_at |-> StartedAt("naive", 60)])}

(***************************************************************************)
(* One action per route: the view function, the controller it calls and    *)
(* the end of the request, when Flask-SQLAlchemy (db.init_app) removes the *)
(* session and with it whatever was not committed.                         *)
(***************************************************************************)
Init ==
    /\ db = EmptyDb
    /\ seq = [quiz |-> 1, question |-> 1, answer |-> 1]
    /\ req = [op |-> "none"]
    /\ resp = success_response(None, "", 200)
    /\ staged = EmptyDb

bad_json == error_response("Request body must be valid JSON", 400, None)

\* POST /api/v1/quizzes
CreateQuiz(data) ==
    /\ seq.quiz <= MaxQuizzes
    /\ req' = [op |-> "create_quiz", data |-> data]
    /\ IF data = CreateBody(None, None)
       THEN /\ resp' = bad_json
            /\ UNCHANGED <<db, seq>>
            /\ staged' = EmptyDb
       ELSE LET r == create_quiz(db, seq, data, Some("anonymous"))
            IN /\ resp' = r.resp
               /\ db' = IF r.committed THEN r.session ELSE db
               /\ seq' = IF r.committed THEN r.n ELSE seq
               /\ staged' = IF r.committed THEN EmptyDb
                            ELSE uncommitted(r.session, db)

\* GET /api/v1/quizzes
GetAllQuizzes(active_only) ==
    /\ req' = [op |-> "get_all_quizzes", active_only |-> active_only]
    /\ resp' = get_all_quizzes(db, 1, 10, None, None, active_only)
    /\ staged' = EmptyDb
    /\ UNCHANGED <<db, seq>>

\* GET /api/v1/quizzes/<id>
GetQuiz(quiz_id, for_student) ==
    /\ req' = [op |-> "get_quiz", quiz_id |-> quiz_id,
               for_student |-> for_student]
    /\ resp' = get_quiz(db, quiz_id, for_student)
    /\ staged' = EmptyDb
    /\ UNCHANGED <<db, seq>>

\* PUT /api/v1/quizzes/<id>
UpdateQuiz(quiz_id, data) ==
    /\ req' = [op |-> "update_quiz", quiz_id |-> quiz_id, data |-> data]
    /\ LET r == IF data = UpdateBody(None)
                THEN [resp |-> bad_json, db |-> db]
                ELSE update_quiz(db, quiz_id, data)
       IN resp' = r.resp /\ db' = r.db
    /\ staged' = EmptyDb
    /\ UNCHANGED seq

\* DELETE /api/v1/quizzes/<id>
DeleteQuiz(quiz_id) ==
    /\ req' = [op |-> "delete_quiz", quiz_id |-> quiz_id]
    /\ LET r == delete_quiz(db, quiz_id)
       IN resp' = r.resp /\ db' = r.db
    /\ staged' = EmptyDb
    /\ UNCHANGED seq

\* POST /api/v1/quiz-sessions/start/<id>
StartQuizSession(quiz_id) ==
    /\ req' = [op |-> "start_quiz_session", quiz_id |-> quiz_id]
    /\ resp' = start_quiz_session(db, quiz_id, None)
    /\ staged' = EmptyDb
    /\ UNCHANGED <<db, seq>>

\* A submission that closes the quiz it scored, which C24 excludes.
SubmitQuizClosing(quiz_id, data) ==
    /\ req' = [op |-> "submit_quiz", quiz_id |-> quiz_id, data |-> data]
    /\ resp' = IF data = SubmitBody(None, StartedAt("absent", 0))
               THEN bad_json
               ELSE submit_quiz(db, quiz_id, data)
    /\ staged' = EmptyDb
    /\ db' = IF resp'.status = 200
             THEN [db EXCEPT !.quiz[quiz_id].is_active = FALSE]
             ELSE db
    /\ UNCHANGED seq

\* POST /api/v1/quiz-sessions/submit/<id>
SubmitQuiz(quiz_id, data) ==
    /\ req' = [op |-> "submit_quiz", quiz_id |-> quiz_id, data |-> data]
    /\ resp' = IF data = SubmitBody(None, StartedAt("absent", 0))
               THEN bad_json
               ELSE submit_quiz(db, quiz_id, data)
    /\ staged' = EmptyDb
    /\ UNCHANGED <<db, seq>>

\* GET /api/v1/quiz-sessions/preview/<id>
PreviewQuiz(quiz_id) ==
    /\ req' = [op |-> "preview_quiz", quiz_id |-> quiz_id]
    /\ resp' = get_quiz(db, quiz_id, TRUE)
    /\ staged' = EmptyDb
    /\ UNCHANGED <<db, seq>>

\* GET /api/v1/quiz-sessions/stats/<id>
GetQuizStatistics(quiz_id) ==
    /\ req' = [op |-> "get_quiz_statistics", quiz_id |-> quiz_id]
    /\ resp' = get_quiz_statistics(db, quiz_id)
    /\ staged' = EmptyDb
    /\ UNCHANGED <<db, seq>>

\* POST /api/v1/quiz-sessions/validate-answers
ValidateAnswersFormat(data) ==
    /\ req' = [op |-> "validate_answers_format", data |-> data]
    /\ resp' = IF data = SubmitBody(None, StartedAt("absent", 0))
               THEN bad_json
               ELSE validate_answers_format(data)
    /\ staged' = EmptyDb
    /\ UNCHANGED <<db, seq>>

\* POST /api/v1/quiz-sessions/time-check/<id>
CheckTimeRemaining(quiz_id, data) ==
    /\ req' = [op |-> "check_time_remaining", quiz_id |-> quiz_id,
               data |-> data]
    /\ resp' = check_time_remaining(db, quiz_id, data)
    /\ staged' = EmptyDb
    /\ UNCHANGED <<db, seq>>

Next ==
    \/ \E data \in CreateBodies : CreateQuiz(data)
    \/ \E active_only \in BOOLEAN : GetAllQuizzes(active_only)
    \/ \E quiz_id \in QuizIds, for_student \in BOOLEAN :
          GetQuiz(quiz_id, for_student)
    \/ \E quiz_id \in QuizIds, data \in UpdateBodies : UpdateQuiz(quiz_id, data)
    \/ \E quiz_id \in QuizIds : DeleteQuiz(quiz_id)
    \/ \E quiz_id \in QuizIds : StartQuizSession(quiz_id)
    \/ \E quiz_id \in QuizIds, data \in SubmitBodies : SubmitQuiz(quiz_id, data)
    \/ \E quiz_id \in QuizIds : PreviewQuiz(quiz_id)
    \/ \E quiz_id \in QuizIds : GetQuizStatistics(quiz_id)
    \/ \E quiz_id \in QuizIds, data \in TimeCheckBodies :
          CheckTimeRemaining(quiz_id, data)

Spec == Init /\ [][Next]_vars

(***************************************************************************)
(* Scoring.  SpecScore starts with a store that create_quiz has filled and *)
(* a submission waiting to be handled, and handles it; the submissions are *)
(* all lists of up to MaxEntries entries.                                  *)
(***************************************************************************)
MaxEntries == 2

\* The outcome of creating a quiz with these questions in store d.
Created(d, n, questions_data) ==
    create_quiz(d, n, CreateBody(Some("Spanish"), Some(questions_data)),
                Some("anonymous"))

FirstKeys == [quiz |-> 1, question |-> 1, answer |-> 1]

\* Stores and the quiz to be scored in them: the only quiz of the store, or
\* the second of two.
ScoreStores ==
    {LET c == Created(EmptyDb, FirstKeys, ValidQuestions(k))
     IN [db |-> c.session, seq |-> c.n, quiz_id |-> 1] :
       k \in 1..MaxQuestions}
      \cup
    {LET first == Created(EmptyDb, FirstKeys, ValidQuestions(1))
         c == Created(first.session, first.n, ValidQuestions(k))
     IN [db |-> c.session, seq |-> c.n, quiz_id |-> 2] :
       k \in 1..MaxQuestions}

\* Entries of a submission to quiz quiz_id of store d (n its next keys):
\* every question of the quiz with every answer of the quiz, and for its
\* first question (or id 1) an entry without question_id, one without
\* answer_id, ids sent as strings, an answer id with a fraction, answer id 0,
\* an answer id not stored, the first answer of the store, a question id not
\* stored, and ids that are no numbers.
Entries(d, n, quiz_id) ==
    LET qs == questions(d, quiz_id)
        mine == {a \in DOMAIN d.answer : d.answer[a].question_id \in
                                           {qs[i] : i \in 1..Len(qs)}}
        q1 == IF qs = <<>> THEN 1 ELSE qs[1]
        c1 == Get(get_correct_answer(d, q1), 1)
    IN {Entry(Some(IntId(qs[i])), Some(IntId(a))) : i \in 1..Len(qs), a \in mine}
         \cup {Entry(None, Some(IntId(c1))),
               Entry(Some(IntId(q1)), None),
               Entry(Some(StrId(q1)), Some(StrId(c1))),
               Entry(Some(IntId(q1)), Some(FloatId(c1))),
               Entry(Some(IntId(q1)), Some(IntId(0))),
               Entry(Some(IntId(q1)), Some(IntId(n.answer))),
               Entry(Some(IntId(q1)), Some(IntId(1))),
               Entry(Some(IntId(n.question)), Some(IntId(c1))),
               Entry(Some(BadId), Some(IntId(c1))),
               Entry(Some(IntId(q1)), Some(BadId))}

Submissions(entries) == UNION {[1..k -> entries] : k \in 0..MaxEntries}

\* A store of stores and a submission to its quiz waiting to be handled.
Waiting(stores) ==
    \E st \in stores :
       /\ db = st.db
       /\ seq = st.seq
       /\ \E answers_data \in Submissions(Entries(st.db, st.seq, st.quiz_id)) :
             req = [op |-> "waiting", quiz_id |-> st.quiz_id,
                    data |-> SubmitBody(Some(answers_data),
                                        StartedAt("absent", 0))]
       /\ resp = success_response(None, "", 200)
       /\ staged = EmptyDb

InitScore == Waiting(ScoreStores)

Score == req.op = "waiting" /\ SubmitQuiz(req.quiz_id, req.data)

NextScore == Score

SpecScore == InitScore /\ [][NextScore]_vars

\* Quiz rows whose questions are gone, which Quiz.questions allows, and
\* quizzes whose questions are all worth 0 points.
ZeroPointQuestions(k) ==
    [i \in 1..k |-> [ValidQuestion(i) EXCEPT !.points = Some(0)]]

DegenerateStores ==
    {LET c == Created(EmptyDb, FirstKeys, ValidQuestions(k))
     IN [db |-> [c.session EXCEPT !.question = EmptyRows,
                                  !.answer = EmptyRows],
         seq |-> c.n, quiz_id |-> 1] :
       k \in 1..MaxQuestions}
      \cup
    {LET c == Created(EmptyDb, FirstKeys, ZeroPointQuestions(k))
     IN [db |-> c.session, seq |-> c.n, quiz_id |-> 1] :
       k \in 1..MaxQuestions}

InitDegenerate == Waiting(DegenerateStores)

NextDegenerate == Score

SpecDegenerate == InitDegenerate /\ [][NextDegenerate]_vars

(***************************************************************************)
(* Grading.  SpecGrade starts with a percentage of up to MaxHundredths     *)
(* hundredths waiting to be graded, and grades it.                         *)
(***************************************************************************)
MaxHundredths == 10000

InitGrade ==
    /\ db = EmptyDb
    /\ seq = FirstKeys
    /\ \E h \in 0..MaxHundredths :
          req = [op |-> "waiting", percentage |-> [num |-> h, den |-> 100]]
    /\ resp = success_response(None, "", 200)
    /\ staged = EmptyDb

Grade ==
    /\ req.op = "waiting"
    /\ req' = [op |-> "_calculate_grade", percentage |-> req.percentage]
    /\ resp' = success_response(Some(_calculate_grade(req.percentage)), "", 200)
    /\ UNCHANGED <<db, seq, staged>>

NextGrade == Grade

SpecGrade == InitGrade /\ [][NextGrade]_vars

(***************************************************************************)
(* The grade and the feedback of two results, as lines 189-213 of          *)
(* _process_quiz_submission compute them from the unrounded percentage of  *)
(* correct answers and the difficulty level of the quiz.                   *)
(***************************************************************************)
\* Percentages in hundredths: the ends of the scale and both sides of every
\* threshold.
FeedbackHundredths ==
    {0, 5999, 6000, 6999, 7000, 7999, 8000, 8999, 9000, 10000}

DifficultyLevels == {"beginner", "intermediate", "advanced"}

\* What a result is graded on.
Graded(h, difficulty_level) ==
    [percentage |-> [num |-> h, den |-> 100],
     difficulty_level |-> difficulty_level]

InitFeedback ==
    /\ db = EmptyDb
    /\ seq = FirstKeys
    /\ \E h1, h2 \in FeedbackHundredths, l1, l2 \in DifficultyLevels :
          req = [op |-> "waiting", first |-> Graded(h1, l1),
                 second |-> Graded(h2, l2)]
    /\ resp = success_response(None, "", 200)
    /\ staged = EmptyDb

\* The grade and performance_feedback entries of the results dictionary.
grade_and_feedback(g) ==
    [grade |-> _calculate_grade(g.percentage),
     performance_feedback |->
       _generate_performance_feedback(g.percentage, g.difficulty_level)]

Feedback ==
    /\ req.op = "waiting"
    /\ req' = [req EXCEPT !.op = "_generate_performance_feedback"]
    /\ resp' = success_response(
                 Some([first |-> grade_and_feedback(req.first),
                       second |-> grade_and_feedback(req.second)]), "", 200)
    /\ UNCHANGED <<db, seq, staged>>

NextFeedback == Feedback

SpecFeedback == InitFeedback /\ [][NextFeedback]_vars

(***************************************************************************)
(* Updating.  SpecUpdate starts with a store of two quizzes and an update  *)
(* of one of them waiting to be handled, and handles it; the updates       *)
(* supply every subset of the six fields.                                  *)
(***************************************************************************)
UpdateFields(title, description, category, difficulty_level, time_limit, is_active) ==
    [title |-> title, description |-> description, category |-> category,
     difficulty_level |-> difficulty_level, time_limit |-> time_limit,
     is_active |-> is_active]

\* JSON bodies of PUT /api/v1/quizzes/<id>: each key absent or present, the
\* title also present as null.
FullUpdateBodies ==
    {UpdateFields(title, description, category, difficulty_level, time_limit,
                  is_active) :
       title \in {None, Some("Nuevo"), Some(JsonNull)},
       description \in {None, Some("Basics")},
       category \in {None, Some("Verbs")},
       difficulty_level \in {None, Some("advanced")},
       time_limit \in {None, Some(30)},
       is_active \in {None, Some(FALSE), Some(TRUE)}}

\* Stores of two quizzes as create_quiz leaves them, and the same after an
\* update of quiz_id that set all six fields.
UpdateStores ==
    LET first == Created(EmptyDb, FirstKeys, ValidQuestions(1))
        c == Created(first.session, first.n, ValidQuestions(MaxQuestions))
    IN {[db |-> c.session, seq |-> c.n, quiz_id |-> quiz_id] :
          quiz_id \in 1..2}
         \cup
       {[db |-> update_quiz(c.session, quiz_id,
                            UpdateFields(Some("Viejo"), Some("Old"),
                                         Some("Nouns"), Some("intermediate"),
                                         Some(10), Some(FALSE))).db,
         seq |-> c.n, quiz_id |-> quiz_id] :
          quiz_id \in 1..2}

InitUpdate ==
    \E st \in UpdateStores :
       /\ db = st.db
       /\ seq = st.seq
       /\ \E data \in FullUpdateBodies :
             req = [op |-> "waiting", quiz_id |-> st.quiz_id, data |-> data]
       /\ resp = success_response(None, "", 200)
       /\ staged = EmptyDb

Update == req.op = "waiting" /\ UpdateQuiz(req.quiz_id, req.data)

NextUpdate == Update

SpecUpdate == InitUpdate /\ [][NextUpdate]_vars

(***************************************************************************)
(* Timing.  SpecTime starts with a store of one quiz, with or without a    *)
(* time limit, and a submission or a time check waiting to be handled,     *)
(* and handles it.  A start timestamp is known by its kind and by the      *)
(* seconds from it to the handling of the request.                         *)
(***************************************************************************)
\* Values of started_at: the key absent, a number, a string that is no ISO
\* timestamp, and timestamps without and with an offset (such as Z) that
\* lie some seconds back.
StartedAts ==
    {StartedAt("absent", 0), StartedAt("nonstring", 0),
     StartedAt("unparsable", 0)}
      \cup {StartedAt("naive", elapsed) : elapsed \in {0, 1799, 1800, 1801, 2400}}
      \cup {StartedAt("aware", elapsed) : elapsed \in {0, 2400}}

\* Stores of one quiz of up to MaxQuestions questions created without a
\* time limit, with a limit of 0 and with one of 30 minutes.
TimeStores ==
    {LET c == create_quiz(EmptyDb, FirstKeys,
                          [CreateBody(Some("Spanish"), Some(ValidQuestions(k)))
                             EXCEPT !.time_limit = time_limit],
                          Some("anonymous"))
     IN [db |-> c.session, seq |-> c.n, quiz_id |-> 1] :
       k \in 1..MaxQuestions, time_limit \in {None, Some(0), Some(30)}}

\* Answers sent with a timed submission: none, or the right one for the
\* first question.
TimedAnswers(d) ==
    {<<>>, <<Entry(Some(IntId(1)), Some(IntId(Get(get_correct_answer(d, 1), 1))))>>}

InitTime ==
    \E st \in TimeStores :
       /\ db = st.db
       /\ seq = st.seq
       /\ \/ \E answers_data \in TimedAnswers(st.db), started_at \in StartedAts :
                req = [op |-> "waiting_submit", quiz_id |-> st.quiz_id,
                       data |-> SubmitBody(Some(answers_data), started_at)]
          \/ \E started_at \in StartedAts :
                req = [op |-> "waiting_check", quiz_id |-> st.quiz_id,
                       data |-> Some([started_at |-> started_at])]
       /\ resp = success_response(None, "", 200)
       /\ staged = EmptyDb

SubmitTimed == req.op = "waiting_submit" /\ SubmitQuiz(req.quiz_id, req.data)

CheckTime ==
    req.op = "waiting_check" /\ CheckTimeRemaining(req.quiz_id, req.data)

NextTime == SubmitTimed \/ CheckTime

SpecTime == InitTime /\ [][NextTime]_vars

(***************************************************************************)
(* Writes during which a flush or the commit fails.  A request carries the *)
(* position of the failing operation among those its handler reaches.      *)
(***************************************************************************)
\* Positions of the failing operation: 0 for none, up to the commit of a
\* quiz of MaxQuestions questions.
Faults == 0..(MaxQuestions + 2)

\* The empty store and stores of one or two quizzes.
FaultStores ==
    {[db |-> EmptyDb, seq |-> FirstKeys]}
      \cup {[db |-> st.db, seq |-> st.seq] : st \in ScoreStores}

\* Write requests: a create, an update (also one that sets the title to
\* null) or a delete, of a stored quiz or of none.
FaultRequests ==
    {[op |-> "waiting_create", data |-> data, fault |-> fault] :
       data \in CreateBodies, fault \in Faults}
      \cup
    {[op |-> "waiting_update", quiz_id |-> quiz_id, data |-> data,
      fault |-> fault] :
       quiz_id \in 1..(MaxQuizzes + 1),
       data \in UpdateBodies
                  \cup {UpdateFields(Some(JsonNull), None, Some("Verbs"),
                                     None, None, None)},
       fault \in 0..1}
      \cup
    {[op |-> "waiting_delete", quiz_id |-> quiz_id, fault |-> fault] :
       quiz_id \in 1..(MaxQuizzes + 1), fault \in 0..1}

InitFault ==
    \E st \in FaultStores :
       /\ db = st.db
       /\ seq = st.seq
       /\ req \in FaultRequests
       /\ resp = success_response(None, "", 200)
       /\ staged = EmptyDb

\* POST /api/v1/quizzes
CreateFailing ==
    /\ req.op = "waiting_create"
    /\ req' = [req EXCEPT !.op = "create_quiz"]
    /\ IF req.data = CreateBody(None, None)
       THEN /\ resp' = bad_json
            /\ UNCHANGED <<db, seq>>
            /\ staged' = EmptyDb
       ELSE LET r == create_quiz_failing(db, seq, req.data, Some("anonymous"),
                                         req.fault)
            IN /\ resp' = r.resp
               /\ db' = IF r.committed THEN r.session ELSE db
               /\ seq' = IF r.committed THEN r.n ELSE seq
               /\ staged' = IF r.committed THEN EmptyDb
                            ELSE uncommitted(r.session, db)

\* PUT /api/v1/quizzes/<id>
UpdateFailing ==
    /\ req.op = "waiting_update"
    /\ req' = [req EXCEPT !.op = "update_quiz"]
    /\ LET r == IF req.data = UpdateBody(None)
                THEN [resp |-> bad_json, db |-> db]
                ELSE update_quiz_failing(db, req.quiz_id, req.data, req.fault)
       IN resp' = r.resp /\ db' = r.db
    /\ staged' = EmptyDb
    /\ UNCHANGED seq

\* DELETE /api/v1/quizzes/<id>
DeleteFailing ==
    /\ req.op = "waiting_delete"
    /\ req' = [req EXCEPT !.op = "delete_quiz"]
    /\ LET r == delete_quiz_failing(db, req.quiz_id, req.fault)
       IN resp' = r.resp /\ db' = r.db
    /\ staged' = EmptyDb
    /\ UNCHANGED seq

NextFault == CreateFailing \/ UpdateFailing \/ DeleteFailing

SpecFault == InitFault /\ [][NextFault]_vars

(***************************************************************************)
(* Calls of QuizController.create_quiz that share one db.session (one      *)
(* application context): what a call leaves in the session is there for    *)
(* the next call, and a commit writes everything the session holds.        *)
(***************************************************************************)
\* The tables as the session sees them: the committed rows and the rows it
\* holds.
overlay(d, held) ==
    [quiz |-> held.quiz @@ d.quiz,
     question |-> held.question @@ d.question,
     answer |-> held.answer @@ d.answer]

InitSession ==
    /\ db = EmptyDb
    /\ seq = FirstKeys
    /\ req = [op |-> "none"]
    /\ resp = success_response(None, "", 200)
    /\ staged = EmptyDb

\* A call of create_quiz in the session: a flush draws keys whether or not
\* the call commits, and a return before the commit leaves the session as
\* it is.
CreateInSession(data) ==
    /\ seq.quiz <= MaxQuizzes
    /\ req' = [op |-> "create_quiz", data |-> data]
    /\ LET r == create_quiz(overlay(db, staged), seq, data, Some("anonymous"))
       IN /\ resp' = r.resp
          /\ db' = IF r.committed THEN r.session ELSE db
          /\ seq' = r.n
          /\ staged' = IF r.committed THEN EmptyDb
                       ELSE uncommitted(r.session, db)

NextSession == \E data \in CreateBodies : CreateInSession(data)

SpecSession == InitSession /\ [][NextSession]_vars

(***************************************************************************)
(* Create requests whose question lists have defects at any place.         *)
(***************************************************************************)
\* Question lists of up to MaxQuestions questions, each valid or with one
\* of the defects create_quiz rejects.
MixedQuestionLists ==
    UNION {[1..k -> {ValidQuestion(1)} \cup MiscountedQuestions
                      \cup MalformedQuestions] : k \in 1..MaxQuestions}

\* The empty store and a store of one quiz, and a create request waiting.
InitOrder ==
    /\ \E st \in {[db |-> EmptyDb, seq |-> FirstKeys],
                  LET c == Created(EmptyDb, FirstKeys, ValidQuestions(1))
                  IN [db |-> c.session, seq |-> c.n]} :
          db = st.db /\ seq = st.seq
    /\ \E questions_data \in MixedQuestionLists :
          req = [op |-> "waiting",
                 data |-> CreateBody(Some("Spanish"), Some(questions_data))]
    /\ resp = success_response(None, "", 200)
    /\ staged = EmptyDb

CreateOrdered == req.op = "waiting" /\ CreateQuiz(req.data)

NextOrder == CreateOrdered

SpecOrder == InitOrder /\ [][NextOrder]_vars

(***************************************************************************)
(* The routes that read, on stores of every kind the writes produce.       *)
(***************************************************************************)
\* The empty store, stores of one and two quizzes, stores whose quiz has a
\* time limit and stores with an updated, inactive quiz.
ReadStores ==
    FaultStores
      \cup {[db |-> st.db, seq |-> st.seq] : st \in TimeStores \cup UpdateStores}

\* Bodies of submissions: those of SubmitBodies, and ones with an id that is
\* no number, with an entry without answer_id, or with a started_at of
\* every kind.
ReadSubmitBodies ==
    SubmitBodies
      \cup {SubmitBody(Some(<<Entry(Some(IntId(1)), Some(BadId))>>),
                       StartedAt("absent", 0)),
            SubmitBody(Some(<<Entry(Some(IntId(1)), None),
                              Entry(Some(StrId(1)), Some(FloatId(1)))>>),
                       StartedAt("absent", 0)),
            SubmitBody(None, StartedAt("naive", 60))}
      \cup {SubmitBody(Some(<<Entry(Some(IntId(1)), Some(IntId(1)))>>), started_at) :
              started_at \in StartedAts}

ReadTimeCheckBodies ==
    TimeCheckBodies \cup {Some([started_at |-> started_at]) :
                            started_at \in StartedAts}

ReadIds == 1..(MaxQuizzes + 1)

InitRead ==
    /\ \E st \in ReadStores : db = st.db /\ seq = st.seq
    /\ req = [op |-> "none"]
    /\ resp = success_response(None, "", 200)
    /\ staged = EmptyDb

NextRead ==
    \/ \E active_only \in BOOLEAN : GetAllQuizzes(active_only)
    \/ \E quiz_id \in ReadIds, for_student \in BOOLEAN :
          GetQuiz(quiz_id, for_student)
    \/ \E quiz_id \in ReadIds : StartQuizSession(quiz_id)
    \/ \E quiz_id \in ReadIds, data \in ReadSubmitBodies :
          SubmitQuiz(quiz_id, data)
    \/ \E quiz_id \in ReadIds : PreviewQuiz(quiz_id)
    \/ \E quiz_id \in ReadIds : GetQuizStatistics(quiz_id)
    \/ \E data \in ReadSubmitBodies : ValidateAnswersFormat(data)
    \/ \E quiz_id \in ReadIds, data \in ReadTimeCheckBodies :
          CheckTimeRemaining(quiz_id, data)

SpecRead == InitRead /\ [][NextRead]_vars

(***************************************************************************)
(* Creates and updates that send a difficulty_level.                       *)
(***************************************************************************)
\* Values of difficulty_level in a body: the key absent, a level of the
\* enumeration, and a string outside it.
SentLevels == {None, Some("advanced"), Some("expert")}

LevelCreateBodies ==
    {[CreateBody(Some("Spanish"), Some(ValidQuestions(1)))
        EXCEPT !.difficulty_level = difficulty_level] :
       difficulty_level \in SentLevels}

LevelUpdateBodies ==
    {UpdateFields(None, None, None, difficulty_level, None, is_active) :
       difficulty_level \in SentLevels, is_active \in {None, Some(FALSE)}}
      \ {UpdateBody(None)}

NextLevels ==
    \/ \E data \in LevelCreateBodies : CreateQuiz(data)
    \/ \E quiz_id \in QuizIds, data \in LevelUpdateBodies :
          UpdateQuiz(quiz_id, data)

SpecLevels == Init /\ [][NextLevels]_vars

(***************************************************************************)
(* Creates that send point values, and submissions to the quizzes they     *)
(* store.                                                                  *)
(***************************************************************************)
\* Values of points in a payload question: the key absent, a positive and
\* a negative integer.
SentPoints == {None, Some(3), Some(-2)}

\* Bodies of one or two valid questions with every choice of points.
PointCreateBodies ==
    UNION {{CreateBody(Some("Spanish"),
                       Some([i \in 1..k |->
                               [ValidQuestion(i) EXCEPT !.points = points[i]]])) :
              points \in [1..k -> SentPoints]} : k \in 1..2}

\* Submissions to a stored quiz: the correct answer for the questions of a
\* set, in the order of the questions.
PointSubmissions(d, quiz_id) ==
    {LET answered == SetToSeq(chosen)
     IN [i \in 1..Len(answered) |->
           Entry(Some(IntId(answered[i])),
                 Some(IntId(Get(get_correct_answer(d, answered[i]), 0))))] :
       chosen \in SUBSET {q \in DOMAIN d.question :
                            d.question[q].quiz_id = quiz_id}}

NextPoints ==
    \/ \E data \in PointCreateBodies : CreateQuiz(data)
    \/ \E quiz_id \in DOMAIN db.quiz :
          \E answers_data \in PointSubmissions(db, quiz_id) :
             SubmitQuiz(quiz_id, SubmitBody(Some(answers_data),
                                            StartedAt("absent", 0)))

SpecPoints == Init /\ [][NextPoints]_vars

(***************************************************************************)
(* A time check and a submission with the same started_at, handled at the  *)
(* same instant: elapsed is the same for both.                             *)
(***************************************************************************)
InitAgree ==
    \E st \in TimeStores :
       /\ db = st.db
       /\ seq = st.seq
       /\ \E answers_data \in TimedAnswers(st.db), started_at \in StartedAts :
             req = [op |-> "waiting", quiz_id |-> st.quiz_id,
                    started_at |-> started_at, answers |-> answers_data,
                    checked |-> None]
       /\ resp = success_response(None, "", 200)
       /\ staged = EmptyDb

\* POST /api/v1/quiz-sessions/time-check/<id>; the request keeps the
\* response for the comparison.
CheckAtInstant ==
    /\ req.op = "waiting"
    /\ resp' = check_time_remaining(db, req.quiz_id,
                                    Some([started_at |-> req.started_at]))
    /\ req' = [req EXCEPT !.op = "check_time_remaining",
                          !.checked = Some(resp')]
    /\ staged' = EmptyDb
    /\ UNCHANGED <<db, seq>>

\* POST /api/v1/quiz-sessions/submit/<id>
SubmitAtInstant ==
    /\ req.op = "check_time_remaining"
    /\ resp' = submit_quiz(db, req.quiz_id,
                           SubmitBody(Some(req.answers), req.started_at))
    /\ req' = [req EXCEPT !.op = "submit_quiz"]
    /\ staged' = EmptyDb
    /\ UNCHANGED <<db, seq>>

NextAgree == CheckAtInstant \/ SubmitAtInstant

SpecAgree == InitAgree /\ [][NextAgree]_vars

(***************************************************************************)
(* Two DELETE /api/v1/quizzes/<id> requests on one quiz id that run at the *)
(* same time, each in a db.session of its own: a request looks the quiz up *)
(* (line 253) and, in a later step, deletes it and commits (lines          *)
(* 258-259). req.pc is the position of each request, req.quiz the row the  *)
(* lookup of each request loaded, resp the response of each request.       *)
(***************************************************************************)

Requests == 1..2

\* What the commit of a request does whose quiz row another request has
\* deleted since the lookup. The DELETE for the row matches no row; the
\* mapper (confirm_deleted_rows, no version counter) reports that with a
\* warning and the commit goes through ("warning"). Under a warnings filter
\* that raises, or when the database refuses the statement, the commit
\* raises ("error").
StaleOutcomes == {"warning", "error"}

RaceStores ==
    {[db |-> st.db, seq |-> st.seq] : st \in ScoreStores \cup UpdateStores}

NotAnswered == success_response(None, "", 200)

InitRace ==
    \E st \in RaceStores :
       /\ db = st.db
       /\ seq = st.seq
       /\ \E quiz_id \in DOMAIN st.db.quiz :
             req = [op |-> "delete_quiz", quiz_id |-> quiz_id,
                    pc |-> [p \in Requests |-> "lookup"],
                    quiz |-> [p \in Requests |-> None]]
       /\ resp = [p \in Requests |-> NotAnswered]
       /\ staged = EmptyDb

\* quiz = Quiz.query.get(quiz_id); if not quiz: 404 (lines 253-256)
Lookup(p) ==
    /\ req.pc[p] = "lookup"
    /\ IF req.quiz_id \notin DOMAIN db.quiz
       THEN /\ req' = [req EXCEPT !.pc[p] = "done"]
            /\ resp' = [resp EXCEPT ![p] = delete_quiz(db, req.quiz_id).resp]
       ELSE /\ req' = [req EXCEPT !.pc[p] = "write",
                                  !.quiz[p] = Some(db.quiz[req.quiz_id])]
            /\ UNCHANGED resp
    /\ UNCHANGED <<db, seq, staged>>

\* db.session.delete(quiz); db.session.commit(); the 200 response (lines
\* 258-263), for a request whose quiz row is still stored.
DeleteAndCommit(p) ==
    /\ req.pc[p] = "write"
    /\ req.quiz_id \in DOMAIN db.quiz
    /\ req' = [req EXCEPT !.pc[p] = "done"]
    /\ LET r == delete_quiz(db, req.quiz_id)
       IN resp' = [resp EXCEPT ![p] = r.resp] /\ db' = r.db
    /\ UNCHANGED <<seq, staged>>

\* The same lines for a request whose quiz row has been deleted since its
\* lookup: the rows the cascade still finds go (none is left), and the
\* request is answered 200 with the title its lookup loaded, or 500 by
\* handle_database_error after the rollback.
DeleteAndCommitStale(p) ==
    /\ req.pc[p] = "write"
    /\ req.quiz_id \notin DOMAIN db.quiz
    /\ req' = [req EXCEPT !.pc[p] = "done"]
    /\ \E outcome \in StaleOutcomes :
          IF outcome = "warning"
          THEN /\ resp' = [resp EXCEPT ![p] =
                             success_response(None,
                               "Quiz '" \o req.quiz[p][1].title
                                 \o "' deleted successfully", 200)]
               /\ db' = cascade_delete(db, req.quiz_id)
          ELSE /\ resp' = [resp EXCEPT ![p] = database_error]
               /\ db' = rollback(db, cascade_delete(db, req.quiz_id))
    /\ UNCHANGED <<seq, staged>>

NextRace ==
    \/ \E p \in Requests : Lookup(p)
    \/ \E p \in Requests : DeleteAndCommit(p)
    \/ \E p \in Requests : DeleteAndCommitStale(p)

SpecRace == InitRace /\ [][NextRace]_vars

(***************************************************************************)
(* Properties of the authoring routes, checked under Spec.                 *)
(***************************************************************************)
\* The number of answers of a payload question flagged correct.
FlaggedCorrect(q_data) ==
    IF q_data.answers = None THEN 0
    ELSE Cardinality({j \in 1..Len(q_data.answers[1]) :
                        q_data.answers[1][j].is_correct = Some(TRUE)})

\* Some question of the body has a number of correct answers other than 1.
HasMiscount(data) ==
    /\ data.questions # None
    /\ \E i \in 1..Len(data.questions[1]) :
          FlaggedCorrect(data.questions[1][i]) # 1

\* C1: a create request with a question whose number of answers flagged
\* correct is not 1 is answered 422 and leaves the committed tables as they
\* were, wherever the question stands in the list.
C1_MiscountRejected ==
    [][(req'.op = "create_quiz" /\ HasMiscount(req'.data))
         => (resp'.status = 422 /\ ~resp'.success /\ db' = db)]_vars

\* C1 witness: a miscounted question behind a valid one was rejected while a
\* quiz of an earlier request is stored.
C1_Witness ==
    /\ req.op = "create_quiz"
    /\ req.data.questions # None
    /\ Len(req.data.questions[1]) >= 2
    /\ FlaggedCorrect(req.data.questions[1][1]) = 1
    /\ FlaggedCorrect(req.data.questions[1][Len(req.data.questions[1])]) = 2
    /\ resp.status = 422
    /\ DOMAIN db.quiz # {}
    /\ DOMAIN staged.answer # {}

\* C2: every stored question has at least 2 answers and exactly one answer
\* flagged correct.
C2_StoredQuestionsWellFormed ==
    \A q \in DOMAIN db.question :
       LET mine == {a \in DOMAIN db.answer : db.answer[a].question_id = q}
       IN /\ Cardinality(mine) >= 2
          /\ Cardinality({a \in mine : db.answer[a].is_correct}) = 1

\* C2 witness: questions are stored after creates, an update and a delete
\* have succeeded.
C2_Witness ==
    /\ DOMAIN db.question # {}
    /\ \E id \in DOMAIN db.quiz : ~db.quiz[id].is_active
    /\ req.op = "delete_quiz"
    /\ resp.status = 200

\* The tables with other correctness flags and explanations: the answers in
\* correct are flagged, and every explanation is explanation.
Regraded(d, correct, explanation) ==
    [d EXCEPT
       !.answer = [a \in DOMAIN d.answer |->
                     [d.answer[a] EXCEPT !.is_correct = a \in correct,
                                         !.explanation = explanation]],
       !.question = [q \in DOMAIN d.question |->
                       [d.question[q] EXCEPT !.explanation = explanation]]]

\* No is_correct key in a student view of a quiz, at any level.
NoIsCorrectKey(quiz_dict) ==
    /\ "is_correct" \notin DOMAIN quiz_dict
    /\ \A i \in 1..Len(quiz_dict.questions) :
          /\ "is_correct" \notin DOMAIN quiz_dict.questions[i]
          /\ \A j \in 1..Len(quiz_dict.questions[i].answers) :
                "is_correct" \notin DOMAIN quiz_dict.questions[i].answers[j]

IsStudentView ==
    /\ resp.status = 200
    /\ \/ req.op = "get_quiz" /\ req.for_student
       \/ req.op \in {"preview_quiz", "start_quiz_session"}

StudentPayload ==
    IF req.op = "start_quiz_session" THEN resp.data[1].quiz ELSE resp.data[1]

\* C3: what a student is sent (get with for_student, preview, start) has no
\* is_correct key at any level and is what the same quiz would give with any
\* other answers flagged correct and other explanations.
C3_StudentViewHidesAnswers ==
    IsStudentView =>
      /\ NoIsCorrectKey(StudentPayload)
      /\ req.op = "start_quiz_session" =>
            /\ DOMAIN resp.data[1] = {"quiz", "session_info"}
            /\ "is_correct" \notin DOMAIN resp.data[1].session_info
      /\ LET mine == {a \in DOMAIN db.answer :
                        db.question[db.answer[a].question_id].quiz_id
                          = req.quiz_id}
         IN \A correct \in SUBSET mine :
            \A explanation \in {None, Some("other")} :
               StudentPayload =
                 Quiz_to_student_dict(Regraded(db, correct, explanation),
                                      req.quiz_id)

\* C3 witness: a student fetched a quiz holding several questions, one of
\* them with an explained correct answer.
C3_Witness ==
    /\ IsStudentView
    /\ req.op = "get_quiz"
    /\ Len(StudentPayload.questions) >= 2
    /\ \E a \in DOMAIN db.answer :
          /\ db.question[db.answer[a].question_id].quiz_id = req.quiz_id
          /\ db.answer[a].is_correct
          /\ db.answer[a].explanation # None

\* What the spec calls a valid create body: a title, at least one question,
\* each with text, a valid type, at least 2 answers with text and exactly
\* one of them flagged correct.
ValidBody(data) ==
    /\ data.title \notin {None, Some("")}
    /\ data.questions # None
    /\ Len(data.questions[1]) >= 1
    /\ \A i \in 1..Len(data.questions[1]) :
          LET q_data == data.questions[1][i]
          IN /\ q_data.text \notin {None, Some("")}
             /\ q_data.question_type = None
                  \/ q_data.question_type[1]
                       \in {"multiple_choice", "true_false", "fill_blank"}
             /\ q_data.answers # None
             /\ Len(q_data.answers[1]) >= 2
             /\ \A j \in 1..Len(q_data.answers[1]) :
                   q_data.answers[1][j].text \notin {None, Some("")}
             /\ FlaggedCorrect(q_data) = 1

\* C5: a valid create body is answered 201, the quiz returned has as many
\* questions as the body, each with the answers submitted for it in order,
\* and the committed tables hold exactly that quiz under its id.
C5_ValidBodyCreated ==
    (req.op = "create_quiz" /\ ValidBody(req.data)) =>
      /\ resp.status = 201
      /\ resp.success
      /\ LET quiz == resp.data[1]
             sent == req.data.questions[1]
         IN /\ quiz.question_count = Len(sent)
            /\ Len(quiz.questions) = Len(sent)
            /\ \A i \in 1..Len(sent) :
                  /\ quiz.questions[i].text = sent[i].text[1]
                  /\ Len(quiz.questions[i].answers) = Len(sent[i].answers[1])
                  /\ \A j \in 1..Len(sent[i].answers[1]) :
                        /\ quiz.questions[i].answers[j].text
                             = sent[i].answers[1][j].text[1]
                        /\ quiz.questions[i].answers[j].is_correct
                             = (sent[i].answers[1][j].is_correct = Some(TRUE))
            /\ quiz.id \in DOMAIN db.quiz
            /\ Quiz_to_dict_with_questions(db, quiz.id) = quiz
            /\ staged = EmptyDb

\* C5 witness: a valid body of MaxQuestions questions was created beside an
\* earlier quiz.
C5_Witness ==
    /\ req.op = "create_quiz"
    /\ ValidBody(req.data)
    /\ resp.status = 201
    /\ resp.data[1].question_count = MaxQuestions
    /\ Cardinality(DOMAIN db.quiz) >= 2

\* The tables without quiz quiz_id, its questions and their answers.
Without(d, quiz_id) ==
    [quiz |-> [k \in {k \in DOMAIN d.quiz : k # quiz_id} |-> d.quiz[k]],
     question |-> [k \in {k \in DOMAIN d.question :
                            d.question[k].quiz_id # quiz_id}
                     |-> d.question[k]],
     answer |-> [k \in {k \in DOMAIN d.answer :
                          d.question[d.answer[k].question_id].quiz_id
                            # quiz_id}
                   |-> d.answer[k]]]

\* The operations that address one quiz by its id.
ByIdOps ==
    {"get_quiz", "update_quiz", "delete_quiz", "submit_quiz",
     "start_quiz_session", "get_quiz_statistics", "check_time_remaining"}

\* The id was given to a quiz that has since been deleted.
Deleted(quiz_id) == quiz_id < seq.quiz /\ quiz_id \notin DOMAIN db.quiz

\* The request gets past the checks its route makes on the body before the
\* quiz is looked up: update and submit need a non-empty JSON body,
\* time-check a body with started_at.
PassesBodyChecks(r) ==
    CASE r.op = "update_quiz" -> r.data # UpdateBody(None)
      [] r.op = "submit_quiz" ->
           r.data # SubmitBody(None, StartedAt("absent", 0))
      [] r.op = "check_time_remaining" ->
           r.data # None /\ r.data[1].started_at.kind # "absent"
      [] OTHER -> TRUE

\* A delete does what the spec says: of a stored quiz, 200 and exactly that
\* quiz, its questions and their answers go; of any other id, 404 and
\* nothing changes.
DeleteStep ==
    req'.op = "delete_quiz" =>
      IF req'.quiz_id \in DOMAIN db.quiz
      THEN /\ resp'.status = 200
           /\ db' = Without(db, req'.quiz_id)
      ELSE /\ resp'.status = 404
           /\ db' = db

\* A deleted quiz stays deleted.
StaysDeleted == \A quiz_id \in QuizIds : Deleted(quiz_id) => Deleted(quiz_id)'

\* C10: deleting a stored quiz removes it with its questions and their
\* answers and nothing else, deleting an unknown id is answered 404 and
\* changes nothing, a deleted quiz stays deleted, and every later request
\* on its id that passes its route's body checks (get, update, delete,
\* submit, start, stats, time-check) is answered 404 and changes nothing.
C10_DeleteCascades ==
    [][/\ DeleteStep
       /\ StaysDeleted
       /\ (req'.op \in ByIdOps /\ Deleted(req'.quiz_id)
             /\ PassesBodyChecks(req'))
            => (resp'.status = 404 /\ db' = db)]_vars

\* C10 as the spec words it: every later request on a deleted quiz's id is
\* answered 404, whatever its body.
C10_AllNotFound ==
    [][/\ DeleteStep
       /\ StaysDeleted
       /\ (req'.op \in ByIdOps /\ Deleted(req'.quiz_id))
            => (resp'.status = 404 /\ db' = db)]_vars

\* C10 witness: a submission with answers to a deleted quiz was answered 404
\* while another quiz, with its questions and answers, is still stored.
C10_Witness ==
    /\ req.op = "submit_quiz"
    /\ req.data.answers # None
    /\ Deleted(req.quiz_id)
    /\ resp.status = 404
    /\ \E other \in DOMAIN db.quiz :
          \E q \in DOMAIN db.question :
             /\ db.question[q].quiz_id = other
             /\ \E a \in DOMAIN db.answer : db.answer[a].question_id = q


(***************************************************************************)
(* Properties of the scorer, checked under SpecScore, SpecDegenerate and   *)
(* SpecGrade.                                                              *)
(***************************************************************************)
\* Every id of an entry that has both keys can be coerced to an integer.
Coercible(answers_data) ==
    \A i \in 1..Len(answers_data) :
       (answers_data[i].question_id # None /\ answers_data[i].answer_id # None)
         => /\ answers_data[i].question_id[1].kind # "bad"
            /\ answers_data[i].answer_id[1].kind # "bad"

\* The answer id a submission maps question q to, ids coerced to integers:
\* that of its last entry for q with both keys, or None.
Mapped(answers_data, q) ==
    LET for_q == {i \in 1..Len(answers_data) :
                    /\ answers_data[i].question_id # None
                    /\ answers_data[i].answer_id # None
                    /\ answers_data[i].question_id[1].n = q}
    IN IF for_q = {} THEN None
       ELSE LET last == CHOOSE i \in for_q : \A j \in for_q : j <= i
            IN Some(answers_data[last].answer_id[1].n)

\* The stored correct answer ids of question q.
CorrectIds(q) ==
    {a \in DOMAIN db.answer :
       db.answer[a].question_id = q /\ db.answer[a].is_correct}

QuestionsOf(quiz_id) ==
    {q \in DOMAIN db.question : db.question[q].quiz_id = quiz_id}

\* The last request was a submission whose ids can all be coerced.
Submitted == req.op = "submit_quiz" /\ Coercible(req.data.answers[1])

\* C4: the scorer's record of each question of the quiz has is_correct true
\* exactly when the submission maps the question to the id of its correct
\* answer, points_possible the question's points, and points_earned those
\* points when is_correct and 0 otherwise.
C4_QuestionRecords ==
    Submitted =>
      /\ resp.status = 200
      /\ LET records == resp.data[1].question_results
         IN \A q \in QuestionsOf(req.quiz_id) :
               /\ \E i \in 1..Len(records) : records[i].question_id = q
               /\ \A i \in 1..Len(records) :
                     records[i].question_id = q =>
                       /\ records[i].is_correct
                            <=> \E a \in CorrectIds(q) :
                                   Mapped(req.data.answers[1], q) = Some(a)
                       /\ records[i].points_possible = db.question[q].points
                       /\ records[i].points_earned
                            = IF records[i].is_correct
                              THEN db.question[q].points ELSE 0

\* C4 witness: a scored submission gave one question the correct answer of
\* another, which earned 0, and answered a question worth 2 points rightly.
C4_Witness ==
    /\ Submitted
    /\ resp.status = 200
    /\ LET records == resp.data[1].question_results
       IN \E i, j \in 1..Len(records) :
             /\ records[i].is_correct /\ records[i].points_earned = 2
             /\ ~records[j].is_correct /\ records[j].points_earned = 0
             /\ records[j].points_possible = 1
             /\ Mapped(req.data.answers[1], records[j].question_id)
                  = Some(records[i].correct_answer[1].id)

\* The submission maps every question of the quiz to its correct answer.
AllCorrect ==
    \A q \in QuestionsOf(req.quiz_id) :
       \E a \in CorrectIds(q) : Mapped(req.data.answers[1], q) = Some(a)

\* C6: a submission that gives every question of the quiz its stored correct
\* answer id has percentage_correct 100.00 and grade A.
C6_AllCorrectIsFullMarks ==
    (Submitted /\ AllCorrect) =>
      /\ resp.status = 200
      /\ resp.data[1].score_summary.percentage_correct = 10000
      /\ resp.data[1].score_summary.grade = "A"

\* C6 witness: every one of MaxQuestions questions of the second quiz of a
\* store was answered rightly.
C6_Witness ==
    /\ Submitted
    /\ AllCorrect
    /\ req.quiz_id = 2
    /\ Cardinality(QuestionsOf(req.quiz_id)) = MaxQuestions
    /\ resp.status = 200

\* The grade of a percentage given in hundredths.
GradeOfHundredths(h) ==
    CASE h >= 9000 -> "A"
      [] h >= 8000 /\ h < 9000 -> "B"
      [] h >= 7000 /\ h < 8000 -> "C"
      [] h >= 6000 /\ h < 7000 -> "D"
      [] h < 6000 -> "F"

\* C7: the grade of a percentage is A from 90, B from 80 and below 90, C from
\* 70 and below 80, D from 60 and below 70, F below 60; so 90.0 is A, 89.99
\* is B, 60.0 is D and 59.99 is F.
C7_GradeThresholds ==
    req.op = "_calculate_grade" =>
      /\ resp.data[1] = GradeOfHundredths(req.percentage.num)
      /\ req.percentage.num = 9000 => resp.data[1] = "A"
      /\ req.percentage.num = 8999 => resp.data[1] = "B"
      /\ req.percentage.num = 6000 => resp.data[1] = "D"
      /\ req.percentage.num = 5999 => resp.data[1] = "F"

\* C7 witness: 89.99 was graded.
C7_Witness ==
    /\ req.op = "_calculate_grade"
    /\ req.percentage.num = 8999
    /\ resp.data[1] = "B"

\* h hundredths is 100 * x / y rounded to 2 decimals.
IsRounded(h, x, y) ==
    LET diff == h * y - 10000 * x
    IN 2 * (IF diff < 0 THEN 0 - diff ELSE diff) <= y

RECURSIVE Count(_, _)
Count(records, i) ==
    IF i > Len(records) THEN 0
    ELSE (IF records[i].is_correct THEN 1 ELSE 0) + Count(records, i + 1)

RECURSIVE Total(_, _, _)
Total(records, key, i) ==
    IF i > Len(records) THEN 0
    ELSE records[i][key] + Total(records, key, i + 1)

\* C8: in a scoring result correct_answers counts the records with
\* is_correct, total_questions counts the records, points_earned and
\* total_points_possible are the sums of the records' fields, and both
\* percentages are the ratios times 100 rounded to 2 decimals; with records
\* worth 1 and 2 points, the first correct and the second not, the summary
\* is 1 of 2, 50.0, 1 of 3 points, 33.33 and F.
C8_SummaryAgreesWithRecords ==
    (req.op = "submit_quiz" /\ resp.status = 200) =>
      LET records == resp.data[1].question_results
          summary == resp.data[1].score_summary
      IN /\ summary.correct_answers = Count(records, 1)
         /\ summary.total_questions = Len(records)
         /\ summary.points_earned = Total(records, "points_earned", 1)
         /\ summary.total_points_possible
              = Total(records, "points_possible", 1)
         /\ Len(records) > 0 =>
               IsRounded(summary.percentage_correct, Count(records, 1),
                         Len(records))
         /\ Total(records, "points_possible", 1) > 0 =>
               IsRounded(summary.points_percentage,
                         Total(records, "points_earned", 1),
                         Total(records, "points_possible", 1))
         /\ (/\ Len(records) = 2
             /\ records[1].points_possible = 1 /\ records[1].is_correct
             /\ records[2].points_possible = 2 /\ ~records[2].is_correct)
              => summary = [correct_answers |-> 1, total_questions |-> 2,
                            percentage_correct |-> 5000, points_earned |-> 1,
                            total_points_possible |-> 3,
                            points_percentage |-> 3333, grade |-> "F"]

\* C8 witness: questions worth 1 and 2 points were scored, the first
\* answered rightly and the second wrongly.
C8_Witness ==
    /\ req.op = "submit_quiz"
    /\ resp.status = 200
    /\ LET records == resp.data[1].question_results
       IN /\ Len(records) = 2
          /\ records[1].points_possible = 1 /\ records[1].is_correct
          /\ records[2].points_possible = 2 /\ ~records[2].is_correct
          /\ records[2].submitted_answer # None

\* C9: a submission to a quiz without questions is answered with a result
\* whose percentage_correct is 0 and grade F, and one to a quiz whose
\* questions are worth 0 points in total with a result whose
\* points_percentage is 0.
C9_NoDivisionByZero ==
    Submitted =>
      /\ resp.status = 200
      /\ LET summary == resp.data[1].score_summary
         IN /\ QuestionsOf(req.quiz_id) = {} =>
                  /\ summary.total_questions = 0
                  /\ summary.percentage_correct = 0
                  /\ summary.grade = "F"
            /\ (\A q \in QuestionsOf(req.quiz_id) : db.question[q].points = 0)
                 => /\ summary.total_points_possible = 0
                    /\ summary.points_percentage = 0

\* C9 witness: a quiz whose questions are worth 0 points was answered
\* rightly and scored.
C9_Witness ==
    /\ Submitted
    /\ resp.status = 200
    /\ QuestionsOf(req.quiz_id) # {}
    /\ AllCorrect
    /\ resp.data[1].score_summary.total_points_possible = 0
    /\ resp.data[1].score_summary.percentage_correct = 10000

(***************************************************************************)
(* Properties of update, checked under SpecUpdate.                         *)
(***************************************************************************)
UpdatableFields ==
    {"title", "description", "category", "difficulty_level", "time_limit",
     "is_active"}

\* The value a stored field has when the body supplies it: the columns that
\* may be NULL hold options.
Supplied(data, f) ==
    IF f \in {"description", "category", "time_limit"} THEN data[f]
    ELSE data[f][1]

\* The update of a stored quiz succeeded: the supplied fields have the
\* supplied values and nothing else of the store has changed.
UpdateApplied ==
    /\ resp'.status = 200
    /\ resp'.success
    /\ DOMAIN db'.quiz = DOMAIN db.quiz
    /\ \A f \in UpdatableFields :
          db'.quiz[req'.quiz_id][f] =
            IF req'.data[f] # None THEN Supplied(req'.data, f)
            ELSE db.quiz[req'.quiz_id][f]
    /\ db'.quiz[req'.quiz_id].created_by = db.quiz[req'.quiz_id].created_by
    /\ \A id \in DOMAIN db.quiz \ {req'.quiz_id} : db'.quiz[id] = db.quiz[id]
    /\ db'.question = db.question
    /\ db'.answer = db.answer
    /\ resp'.data[1] = Quiz_to_dict_with_questions(db', req'.quiz_id)

\* C11: an update of a stored quiz that supplies any subset of title,
\* description, category, difficulty_level, time_limit and is_active
\* succeeds, the supplied fields take the supplied values, the other fields
\* keep theirs and the quiz's questions and answers are unchanged.
C11_UpdateAppliesSubset ==
    [][(req'.op = "update_quiz" /\ req'.quiz_id \in DOMAIN db.quiz)
         => UpdateApplied]_vars

\* C11 holds of the updates that supply some field and no null title.
C11_UpdateAppliesAccepted ==
    [][(/\ req'.op = "update_quiz" /\ req'.quiz_id \in DOMAIN db.quiz
        /\ req'.data # UpdateBody(None)
        /\ req'.data.title # Some(JsonNull))
         => UpdateApplied]_vars

\* C11 witness: an update that supplied a null title and a new category to
\* a quiz with questions was answered 500.
C11_Witness ==
    /\ req.op = "update_quiz"
    /\ req.quiz_id \in DOMAIN db.quiz
    /\ req.data.title = Some(JsonNull)
    /\ req.data.category = Some("Verbs")
    /\ resp.status = 500
    /\ db.quiz[req.quiz_id].category # Some("Verbs")

(***************************************************************************)
(* Properties of the time limit, checked under SpecTime.                   *)
(***************************************************************************)
\* The last request was a submission with answers to a stored, active quiz
\* with a time limit.
TimedSubmission ==
    /\ req.op = "submit_quiz"
    /\ req.quiz_id \in DOMAIN db.quiz
    /\ db.quiz[req.quiz_id].is_active
    /\ db.quiz[req.quiz_id].time_limit \notin {None, Some(0)}
    /\ req.data.answers # None

Scored ==
    /\ resp.status = 200
    /\ resp.success
    /\ resp.data # None
    /\ "score_summary" \in DOMAIN resp.data[1]

\* C12: a submission with a start timestamp to a quiz with a time limit is
\* answered 422 without a result when more minutes than the limit have
\* passed since the start, and is scored otherwise.
C12_TimeLimitEnforced ==
    (TimedSubmission /\ req.data.started_at.kind \in {"naive", "aware"}) =>
      IF req.data.started_at.elapsed
           > 60 * db.quiz[req.quiz_id].time_limit[1]
      THEN resp.status = 422 /\ ~resp.success /\ resp.data = None
      ELSE Scored

\* C12 holds of the timestamps without an offset.
C12_NaiveTimeLimitEnforced ==
    (TimedSubmission /\ req.data.started_at.kind = "naive") =>
      IF req.data.started_at.elapsed
           > 60 * db.quiz[req.quiz_id].time_limit[1]
      THEN resp.status = 422 /\ ~resp.success /\ resp.data = None
      ELSE Scored

\* C12 witness: a submission started 40 minutes ago with an offset in its
\* timestamp, to a quiz limited to 30 minutes, was answered 500.
C12_Witness ==
    /\ TimedSubmission
    /\ req.data.started_at = StartedAt("aware", 2400)
    /\ db.quiz[req.quiz_id].time_limit = Some(30)
    /\ resp.status = 500

\* The store with the time limits of its quizzes taken away.
Unlimited(d) ==
    [d EXCEPT !.quiz = [id \in DOMAIN d.quiz |->
                          [d.quiz[id] EXCEPT !.time_limit = None]]]

\* The submission was scored as it is when the quiz has no time limit.
ScoredAsUnlimited ==
    /\ Scored
    /\ resp = submit_quiz(Unlimited(db), req.quiz_id, req.data)

\* C13: a submission to a quiz with a time limit whose start timestamp is
\* missing or cannot be parsed is scored and answered as it is for a quiz
\* without a time limit.
C13_UnparsedStartNotEnforced ==
    (TimedSubmission
       /\ req.data.started_at.kind \in {"absent", "unparsable", "nonstring"})
      => ScoredAsUnlimited

\* C13 holds when started_at is absent or a string that is no timestamp.
C13_AbsentOrBadStringNotEnforced ==
    (TimedSubmission
       /\ req.data.started_at.kind \in {"absent", "unparsable"})
      => ScoredAsUnlimited

\* C13 witness: a submission whose started_at is no string, to a quiz
\* limited to 30 minutes, was answered 500.
C13_Witness ==
    /\ TimedSubmission
    /\ req.data.started_at.kind = "nonstring"
    /\ req.data.answers[1] # <<>>
    /\ db.quiz[req.quiz_id].time_limit = Some(30)
    /\ resp.status = 500

\* ---------------------------------------------------------------------
\* Submissions: ids that are no integers, records, duplicates
\* ---------------------------------------------------------------------

\* The last request was a submission with an id int() does not accept in
\* an entry that has both keys.
Uncoercible == req.op = "submit_quiz" /\ ~Coercible(req.data.answers[1])

\* C14: a submission with a question_id or answer_id that cannot be
\* coerced to an integer fails as a whole with a client-error status (4xx)
\* and carries no partial result.
C14_UncoercibleIsClientError ==
    Uncoercible =>
      /\ resp.status \in 400..499
      /\ ~resp.success
      /\ resp.data = None

\* What the code does for such a submission: it fails as a whole, without
\* a result, with status 500.
C14_UncoercibleFailsWhole ==
    Uncoercible =>
      /\ resp.status = 500
      /\ ~resp.success
      /\ resp.data = None

\* C14 witness: a submission of a correct answer and an entry whose id is
\* no number was answered 500.
C14_Witness ==
    /\ Uncoercible
    /\ \E i \in 1..Len(req.data.answers[1]) :
          LET e == req.data.answers[1][i]
          IN /\ e.question_id # None /\ e.answer_id # None
             /\ e.question_id[1].kind = "int"
             /\ e.answer_id[1].kind = "int"
             /\ e.answer_id[1].n \in CorrectIds(e.question_id[1].n)
    /\ resp.status = 500

\* The entries of a submission that name a question of quiz quiz_id.
InQuiz(answers_data, quiz_id) ==
    SelectSeq(answers_data,
              LAMBDA e : /\ e.question_id # None
                         /\ e.question_id[1].n \in QuestionsOf(quiz_id))

\* C15: whatever a submission contains, its result has exactly one record
\* for each question of the quiz, in the stored order of the questions;
\* entries that name no question of the quiz change nothing, and a question
\* the submission does not answer has a record with is_correct false.
C15_OneRecordPerQuestion ==
    Submitted =>
      /\ resp.status = 200
      /\ LET records == resp.data[1].question_results
         IN /\ Len(records) = Cardinality(QuestionsOf(req.quiz_id))
            /\ {records[i].question_id : i \in 1..Len(records)}
                 = QuestionsOf(req.quiz_id)
            /\ \A i, j \in 1..Len(records) :
                  i < j => records[i].question_id < records[j].question_id
            /\ \A i \in 1..Len(records) :
                  Mapped(req.data.answers[1], records[i].question_id) = None
                    => /\ ~records[i].is_correct
                       /\ records[i].points_earned = 0
                       /\ records[i].submitted_answer = None
      /\ resp = submit_quiz(db, req.quiz_id,
                            [req.data EXCEPT !.answers =
                               Some(InQuiz(req.data.answers[1], req.quiz_id))])

\* C15 witness: a submission to a quiz of two questions that answered the
\* second question only, and named a question that is not stored, was
\* scored with two records.
C15_Witness ==
    /\ Submitted
    /\ resp.status = 200
    /\ Len(resp.data[1].question_results) = 2
    /\ Mapped(req.data.answers[1],
              resp.data[1].question_results[1].question_id) = None
    /\ resp.data[1].question_results[2].is_correct
    /\ \E i \in 1..Len(req.data.answers[1]) :
          /\ req.data.answers[1][i].question_id # None
          /\ req.data.answers[1][i].question_id[1].n \notin DOMAIN db.question

\* The entries of a submission that have both keys.
BothKeys(answers_data) ==
    {i \in 1..Len(answers_data) :
       /\ answers_data[i].question_id # None
       /\ answers_data[i].answer_id # None}

\* Two entries with both keys name the same question.
Duplicated(answers_data) ==
    \E i, j \in BothKeys(answers_data) :
       /\ i < j
       /\ answers_data[i].question_id[1].n = answers_data[j].question_id[1].n

\* The submission without the entries that a later entry for the same
\* question follows.
LastOnly(answers_data) ==
    LET kept == {i \in BothKeys(answers_data) :
                   \A j \in BothKeys(answers_data) :
                      answers_data[j].question_id[1].n
                        = answers_data[i].question_id[1].n => j <= i}
    IN [k \in 1..Cardinality(kept) |->
          answers_data[CHOOSE i \in kept :
                          Cardinality({j \in kept : j <= i}) = k]]

\* C16: when a submission has several entries for one question, the
\* result is that of the submission with only the last entry for each
\* question.
C16_LastEntryWins ==
    (Submitted /\ Duplicated(req.data.answers[1])) =>
      resp = submit_quiz(db, req.quiz_id,
                         [req.data EXCEPT !.answers =
                            Some(LastOnly(req.data.answers[1]))])

\* C16 witness: a submission gave a question its correct answer and then
\* another answer, and the record of the question is not correct.
C16_Witness ==
    /\ Submitted
    /\ resp.status = 200
    /\ LET answers_data == req.data.answers[1]
       IN /\ Len(answers_data) = 2
          /\ BothKeys(answers_data) = {1, 2}
          /\ answers_data[1].question_id[1].n = answers_data[2].question_id[1].n
          /\ answers_data[1].answer_id[1].n
               \in CorrectIds(answers_data[1].question_id[1].n)
          /\ answers_data[2].answer_id[1].n \in DOMAIN db.answer
          /\ answers_data[2].answer_id[1].n
               \notin CorrectIds(answers_data[1].question_id[1].n)
          /\ \E i \in 1..Len(resp.data[1].question_results) :
                LET r == resp.data[1].question_results[i]
                IN /\ r.question_id = answers_data[1].question_id[1].n
                   /\ ~r.is_correct
                   /\ r.submitted_answer # None

\* ---------------------------------------------------------------------
\* Failing writes
\* ---------------------------------------------------------------------

\* In this step a flush or the commit of the handler failed: the injected
\* failure was reached, or an update set the title of a stored quiz to null.
PersistenceFailed ==
    \/ /\ req'.op = "create_quiz"
       /\ req'.data # CreateBody(None, None)
       /\ req'.fault \in 1..persistence_operations(db, seq, req'.data,
                                                   Some("anonymous"))
    \/ /\ req'.op = "update_quiz"
       /\ req'.data # UpdateBody(None)
       /\ req'.quiz_id \in DOMAIN db.quiz
       /\ req'.fault = 1 \/ req'.data.title = Some(JsonNull)
    \/ /\ req'.op = "delete_quiz"
       /\ req'.quiz_id \in DOMAIN db.quiz
       /\ req'.fault = 1

\* C17: when a flush or the commit fails during the creation, update or
\* deletion of a quiz, the transaction is rolled back (the session holds
\* nothing), the response has status 500 and the store is as it was.
C17_FailureRollsBack ==
    [][PersistenceFailed =>
         /\ resp'.status = 500
         /\ ~resp'.success
         /\ db' = db
         /\ staged' = EmptyDb]_vars

\* C17 witness: the flush of the second question of a quiz being created
\* in a store that holds a quiz failed, and the response is 500.
C17_Witness ==
    /\ req.op = "create_quiz"
    /\ req.data.questions # None
    /\ Len(req.data.questions[1]) = 2
    /\ req.fault = 3
    /\ DOMAIN db.quiz = {1}
    /\ resp.status = 500

\* A witness for the commits of update and delete: the commit of a delete
\* of a stored quiz failed and the quiz is still stored.
C17_DeleteWitness ==
    /\ req.op = "delete_quiz"
    /\ req.fault = 1
    /\ req.quiz_id \in DOMAIN db.quiz
    /\ resp.status = 500

\* ---------------------------------------------------------------------
\* Unknown ids
\* ---------------------------------------------------------------------

\* This step handles a request that addresses by id a quiz that is not
\* stored.
UnknownIdStep == req'.op \in ByIdOps /\ req'.quiz_id \notin DOMAIN db.quiz

\* The response of this step is a 404 failure and the step changed nothing.
NotFoundStep ==
    /\ resp'.status = 404
    /\ ~resp'.success
    /\ db' = db
    /\ seq' = seq

\* C18: get, update, delete, start, submit, stats and time-check on an id
\* without a quiz are answered 404 with success false and change nothing,
\* when the request passes the checks its route makes on the body before
\* the quiz is looked up.
C18_UnknownIdNotFound ==
    [][(UnknownIdStep /\ PassesBodyChecks(req')) => NotFoundStep]_vars

\* C18 as the spec words it: whatever the body of the request.
C18_AnyBodyNotFound == [][UnknownIdStep => NotFoundStep]_vars

\* C18 witness: a time check with started_at on an id no quiz ever had was
\* answered 404 while another quiz is stored.
C18_Witness ==
    /\ req.op = "check_time_remaining"
    /\ PassesBodyChecks(req)
    /\ req.quiz_id >= seq.quiz
    /\ DOMAIN db.quiz # {}
    /\ resp.status = 404
    /\ ~resp.success

\* ---------------------------------------------------------------------
\* Time check
\* ---------------------------------------------------------------------

\* The last request was a time check, on a quiz with a time limit, whose
\* started_at is a timestamp without offset.
TimeChecked ==
    /\ req.op = "check_time_remaining"
    /\ req.data[1].started_at.kind = "naive"
    /\ db.quiz[req.quiz_id].time_limit \notin {None, Some(0)}

\* The seconds that remain of the limit of the quiz of the last request.
SecondsLeft ==
    LET left == 60 * db.quiz[req.quiz_id].time_limit[1]
                  - req.data[1].started_at.elapsed
    IN IF left > 0 THEN left ELSE 0

\* h hundredths is num / den rounded to the hundredth.
IsHundredthsOf(h, num, den) ==
    LET diff == h * den - 100 * num
    IN 2 * (IF diff < 0 THEN 0 - diff ELSE diff) <= den

C19_OneSecondLeft ==
    /\ TimeChecked
    /\ SecondsLeft = 1
    /\ resp.data[1].remaining_minutes = 2
    /\ ~resp.data[1].is_expired

\* ---------------------------------------------------------------------
\* Required fields of a create request
\* ---------------------------------------------------------------------

\* This step leaves nothing stored and nothing pending in the session.
NothingPersisted == db' = db /\ seq' = seq /\ staged' = EmptyDb

\* The required fields a create body lacks.
MissingFields(data) == {f \in {"title", "questions"} : data[f] = None}

\* This step answers 422 with an error map keyed by the fields the body
\* lacks.
FieldErrors ==
    /\ resp'.status = 422
    /\ ~resp'.success
    /\ resp'.error # None
    /\ DOMAIN resp'.error[1] = MissingFields(req'.data)

\* C20: a create request (a JSON object that is not empty) without title
\* or without question list is answered 422 with an error map keyed by the
\* missing fields; one with a title and an empty question list is answered
\* 422 with a message and no error map; in both cases nothing is persisted.
C20_RequiredFieldsRejected ==
    [][(req'.op = "create_quiz" /\ req'.data # CreateBody(None, None)) =>
         /\ MissingFields(req'.data) # {} => (FieldErrors /\ NothingPersisted)
         /\ (req'.data.title # None /\ req'.data.questions = Some(<<>>)) =>
              /\ resp'.status = 422
              /\ ~resp'.success
              /\ resp'.message = "Quiz must have at least one question"
              /\ resp'.error = None
              /\ NothingPersisted]_vars

\* C20 as the spec words it: a missing title, a missing question list and
\* an empty question list are all answered 422 with an error map.
C20_AlwaysFieldErrors ==
    [][(/\ req'.op = "create_quiz"
        /\ \/ MissingFields(req'.data) # {}
           \/ req'.data.questions = Some(<<>>)) =>
         /\ resp'.status = 422
         /\ ~resp'.success
         /\ resp'.error # None
         /\ NothingPersisted]_vars

\* C20 witness: a create request with questions and no title, sent to a
\* store that holds a quiz, was answered 422 with an error for title only.
C20_Witness ==
    /\ req.op = "create_quiz"
    /\ req.data.title = None
    /\ req.data.questions # None
    /\ resp.status = 422
    /\ resp.error # None
    /\ DOMAIN resp.error[1] = {"title"}
    /\ DOMAIN db.quiz # {}
    /\ staged = EmptyDb

\* A witness for the empty question list: the request was answered 422
\* without an error map.
C20_EmptyListWitness ==
    /\ req.op = "create_quiz"
    /\ req.data.title # None
    /\ req.data.questions = Some(<<>>)
    /\ resp.status = 422
    /\ resp.error = None

\* ---------------------------------------------------------------------
\* Feedback
\* ---------------------------------------------------------------------

\* Two results have been graded.
FeedbackGiven == req.op = "_generate_performance_feedback"

\* The message of each tier, by the grade of the tier.
TierMessage(grade) ==
    CASE grade = "A" -> "Excellent work! You've mastered this material."
      [] grade = "B" -> "Great job! You have a solid understanding of the material."
      [] grade = "C" -> "Good work! You're getting the hang of it."
      [] grade = "D" -> "You're making progress, but there's room for improvement."
      [] grade = "F" -> "This is a challenging topic - don't give up!"

\* C21: the feedback tier of a result is the tier of its grade; the
\* message is fixed by the tier; two results in the same tier below 90
\* carry identical feedback, and two results of 90 or more carry
\* identical feedback exactly when their quizzes have the same difficulty
\* level (the first suggestion of that tier names it).
C21_FeedbackByTier ==
    FeedbackGiven =>
      LET a == resp.data[1].first
          b == resp.data[1].second
      IN /\ a.performance_feedback.message = TierMessage(a.grade)
         /\ b.performance_feedback.message = TierMessage(b.grade)
         /\ (a.grade = b.grade /\ a.grade # "A")
              => a.performance_feedback = b.performance_feedback
         /\ (a.grade = "A" /\ b.grade = "A")
              => /\ Len(a.performance_feedback.suggestions) = 2
                 /\ a.performance_feedback.suggestions[2]
                      = b.performance_feedback.suggestions[2]
                 /\ a.performance_feedback = b.performance_feedback
                      <=> req.first.difficulty_level
                            = req.second.difficulty_level

\* C21 as the spec words it: two results in the same tier carry identical
\* feedback.
C21_SameTierSameFeedback ==
    FeedbackGiven =>
      LET a == resp.data[1].first
          b == resp.data[1].second
      IN /\ a.performance_feedback.message = TierMessage(a.grade)
         /\ b.performance_feedback.message = TierMessage(b.grade)
         /\ a.grade = b.grade
              => a.performance_feedback = b.performance_feedback

\* C21 witness: results of exactly 90 and of 100 on a beginner and an
\* advanced quiz have the same message and different suggestions.
C21_Witness ==
    /\ FeedbackGiven
    /\ req.first = Graded(9000, "beginner")
    /\ req.second = Graded(10000, "advanced")
    /\ resp.data[1].first.grade = "A"
    /\ resp.data[1].first.performance_feedback.message
         = resp.data[1].second.performance_feedback.message
    /\ resp.data[1].first.performance_feedback.suggestions
         # resp.data[1].second.performance_feedback.suggestions

\* ---------------------------------------------------------------------
\* Rejected creates and the session
\* ---------------------------------------------------------------------

\* This step is a create_quiz that returned a validation failure after the
\* quiz row was added to the session.
RejectedAfterStaging ==
    /\ req'.op = "create_quiz"
    /\ resp'.status = 422
    /\ validate_required_fields(req'.data) = << >>
    /\ req'.data.questions # Some(<<>>)

\* C22: when create_quiz returns a validation failure found after the quiz
\* row was staged, the session holds no row when the response is returned,
\* and a later commit in the session persists the rows of the accepted
\* quiz only.
C22_RejectedCreateDiscarded ==
    [][/\ RejectedAfterStaging => staged' = EmptyDb
       /\ (req'.op = "create_quiz" /\ resp'.status = 201)
            => DOMAIN db'.quiz = DOMAIN db.quiz \cup {resp'.data[1].id}]_vars

\* C22 witness: after a rejected and an accepted create in one session the
\* tables hold two quizzes, one of them with a question that has no
\* correct answer or several.
C22_Witness ==
    /\ req.op = "create_quiz"
    /\ resp.status = 201
    /\ Cardinality(DOMAIN db.quiz) = 2
    /\ \E q \in DOMAIN db.question :
          Cardinality({a \in DOMAIN db.answer :
                         db.answer[a].question_id = q /\ db.answer[a].is_correct})
            # 1

\* Under the routes, where the session ends with the request, a rejected
\* create leaves its rows in the session when the controller returns and
\* the tables never hold them.
C22_RoutesDiscardAtTeardown ==
    [][RejectedAfterStaging => (staged' # EmptyDb /\ db' = db)]_vars

\* ---------------------------------------------------------------------
\* The order of the checks of create_quiz
\* ---------------------------------------------------------------------

\* The fields of a payload question that _validate_question_data reports.
FieldDefects(q_data) ==
    (IF q_data.text \in {None, Some("")} THEN {"text"} ELSE {})
      \cup (IF q_data.answers = None THEN {"answers"}
            ELSE IF Len(q_data.answers[1]) < 2 THEN {"answers"} ELSE {})
      \cup (IF q_data.question_type
                 \in {None, Some("multiple_choice"), Some("true_false"),
                      Some("fill_blank")}
            THEN {} ELSE {"question_type"})

\* The answers of a payload question without text.
BlankAnswers(q_data) ==
    IF q_data.answers = None THEN {}
    ELSE {j \in 1..Len(q_data.answers[1]) :
            q_data.answers[1][j].text \in {None, Some("")}}

\* The payload question fails some check of create_quiz.
Fails(q_data) ==
    \/ FieldDefects(q_data) # {}
    \/ BlankAnswers(q_data) # {}
    \/ FlaggedCorrect(q_data) # 1

\* The response reports the field errors of question number i (from 1):
\* one object keyed question_<i - 1> with the offending fields.
ReportsFields(r, q_data, i) ==
    /\ r.status = 422
    /\ r.error # None
    /\ DOMAIN r.error[1] = {"question_" \o ToString(i - 1)}
    /\ DOMAIN r.error[1]["question_" \o ToString(i - 1)] = FieldDefects(q_data)

\* The response reports the first answer without text of question number i.
ReportsAnswer(r, q_data, i) ==
    LET j == CHOOSE j \in BlankAnswers(q_data) :
                \A k \in BlankAnswers(q_data) : j <= k
    IN /\ r.status = 422
       /\ r.error # None
       /\ DOMAIN r.error[1]
            = {"question_" \o ToString(i - 1) \o "_answer_" \o ToString(j - 1)}

\* The response reports the correct-answer count of question number i.
ReportsCount(r, i) ==
    /\ r.status = 422
    /\ r.error = None
    /\ r.message = "Question " \o ToString(i)
                     \o " must have exactly one correct answer"

\* The first question of the list that fails a check, or 0.
FirstFailing(questions_data) ==
    LET failing == {i \in 1..Len(questions_data) : Fails(questions_data[i])}
    IN IF failing = {} THEN 0
       ELSE CHOOSE i \in failing : \A k \in failing : i <= k

\* A create request with a title and a question list was handled.
OrderedCreate ==
    /\ req.op = "create_quiz"
    /\ req.data.title # None
    /\ req.data.questions # None
    /\ req.data.questions[1] # <<>>

\* C23: create_quiz checks the questions in input order and stops at the
\* first that fails: the response reports that question only, either its
\* offending fields in one object keyed question_<index>, or its first
\* answer without text keyed question_<index>_answer_<index>, or its
\* correct-answer count naming index + 1, whatever the later questions
\* are; without a failing question the quiz is created.
C23_FirstFailingReported ==
    OrderedCreate =>
      LET questions_data == req.data.questions[1]
          i == FirstFailing(questions_data)
      IN IF i = 0 THEN resp.status = 201
         ELSE IF FieldDefects(questions_data[i]) # {}
         THEN ReportsFields(resp, questions_data[i], i)
         ELSE IF BlankAnswers(questions_data[i]) # {}
         THEN ReportsAnswer(resp, questions_data[i], i)
         ELSE ReportsCount(resp, i)

\* C23 as the spec words it: the report of the first failing question is
\* its field errors or its correct-answer count.
C23_FieldsOrCount ==
    OrderedCreate =>
      LET questions_data == req.data.questions[1]
          i == FirstFailing(questions_data)
      IN IF i = 0 THEN resp.status = 201
         ELSE IF FieldDefects(questions_data[i]) # {}
         THEN ReportsFields(resp, questions_data[i], i)
         ELSE ReportsCount(resp, i)

\* C23 witness: a first question without a correct answer and a second
\* question with three field errors; the count of the first is reported.
C23_Witness ==
    /\ OrderedCreate
    /\ Len(req.data.questions[1]) = 2
    /\ FieldDefects(req.data.questions[1][1]) = {}
    /\ FlaggedCorrect(req.data.questions[1][1]) = 0
    /\ FieldDefects(req.data.questions[1][2])
         = {"text", "answers", "question_type"}
    /\ ReportsCount(resp, 1)

\* ---------------------------------------------------------------------
\* The reading routes
\* ---------------------------------------------------------------------

ReadOps ==
    {"start_quiz_session", "submit_quiz", "preview_quiz", "get_quiz",
     "get_all_quizzes", "get_quiz_statistics", "validate_answers_format",
     "check_time_remaining"}

\* C24: start-session, submit, preview, get, list, stats, validate-answers
\* and time-check leave the stored quizzes, questions and answers as they
\* were, whatever the input and the outcome, and a submission that repeats
\* the one before it is answered as that one was.
C24_ReadsChangeNothing ==
    [][/\ req'.op \in ReadOps
            => (db' = db /\ seq' = seq /\ staged' = EmptyDb)
       /\ (/\ req.op = "submit_quiz" /\ req'.op = "submit_quiz"
           /\ req'.quiz_id = req.quiz_id /\ req'.data = req.data)
            => resp' = resp]_vars

\* C24 witness: a submission was scored and the quiz is stored and active.
C24_Witness ==
    /\ req.op = "submit_quiz"
    /\ resp.status = 200
    /\ resp.data[1].score_summary.correct_answers = 1
    /\ req.quiz_id \in DOMAIN db.quiz
    /\ db.quiz[req.quiz_id].is_active

\* A witness for the outcomes that are failures: a submission was answered
\* 500 and the quiz is stored.
C24_FailedWitness ==
    /\ req.op = "submit_quiz"
    /\ resp.status = 500
    /\ req.quiz_id \in DOMAIN db.quiz

\* ---------------------------------------------------------------------
\* Fields the handlers store as sent
\* ---------------------------------------------------------------------

\* C25: after any creates and updates, the difficulty_level of every
\* stored quiz is beginner, intermediate or advanced.
C25_LevelsInEnumeration ==
    \A id \in DOMAIN db.quiz : db.quiz[id].difficulty_level \in DifficultyLevels

\* What holds of the levels: a create without difficulty_level stores
\* beginner, and a create or update with one stores what was sent.
C25_LevelsAsSent ==
    [][/\ (req'.op = "create_quiz" /\ resp'.status = 201) =>
            db'.quiz[resp'.data[1].id].difficulty_level
              = Get(req'.data.difficulty_level, "beginner")
       /\ (req'.op = "update_quiz" /\ resp'.status = 200) =>
            db'.quiz[req'.quiz_id].difficulty_level
              = Get(req'.data.difficulty_level,
                    db.quiz[req'.quiz_id].difficulty_level)]_vars

\* C25 witness: a create with difficulty_level "expert" was answered 201
\* and the quiz is stored with that level.
C25_Witness ==
    /\ req.op = "create_quiz"
    /\ req.data.difficulty_level = Some("expert")
    /\ resp.status = 201
    /\ db.quiz[resp.data[1].id].difficulty_level = "expert"

\* The last request was a submission that was scored.
PointsScored == req.op = "submit_quiz" /\ resp.status = 200

\* C26: after any creates the points of every stored question are an
\* integer of 0 or more, and every scoring result has 0 <= points_earned
\* <= total_points_possible and 0 <= points_percentage <= 100.
C26_PointsInRange ==
    /\ \A q \in DOMAIN db.question : db.question[q].points \in Nat
    /\ PointsScored =>
         LET s == resp.data[1].score_summary
         IN /\ 0 <= s.points_earned
            /\ s.points_earned <= s.total_points_possible
            /\ 0 <= s.points_percentage
            /\ s.points_percentage <= 100 * 100

\* What holds of the points: a question is stored with the points sent, or
\* 1 when none are sent, and a result earns the points of the questions
\* answered correctly.
C26_PointsAsSent ==
    [][(req'.op = "create_quiz" /\ resp'.status = 201) =>
         LET sent == req'.data.questions[1]
             stored == resp'.data[1].questions
         IN \A i \in 1..Len(sent) :
               /\ stored[i].points = Get(sent[i].points, 1)
               /\ db'.question[stored[i].id].points = stored[i].points]_vars

\* C26 witness: a quiz with a question of -2 points and a question of 3
\* points is stored, and a submission that answered the first correctly
\* earned -2 points of 1 possible.
C26_Witness ==
    /\ PointsScored
    /\ resp.data[1].score_summary.points_earned = -2
    /\ resp.data[1].score_summary.total_points_possible = 1
    /\ resp.data[1].score_summary.correct_answers = 1

\* ---------------------------------------------------------------------
\* Inactive quizzes
\* ---------------------------------------------------------------------

\* The quiz is stored and its is_active is false.
Inactive(quiz_id) == quiz_id \in DOMAIN db.quiz /\ ~db.quiz[quiz_id].is_active

\* The rows of the quiz: its own, those of its questions and of their
\* answers.
RowsOf(d, quiz_id) ==
    [quiz |-> d.quiz[quiz_id],
     question |-> [q \in {q \in DOMAIN d.question :
                            d.question[q].quiz_id = quiz_id} |-> d.question[q]],
     answer |-> [a \in {a \in DOMAIN d.answer :
                          d.question[d.answer[a].question_id].quiz_id = quiz_id}
                   |-> d.answer[a]]]

\* This step is a request of the operations on an inactive quiz.
OnInactive(ops) == req'.op \in ops /\ Inactive(req'.quiz_id)

\* Get, preview, start and submit on an inactive quiz are refused.
RefusedWhileInactive ==
    (OnInactive({"get_quiz", "preview_quiz", "start_quiz_session", "submit_quiz"})
       /\ PassesBodyChecks(req'))
      => /\ resp'.status = 403
         /\ ~resp'.success
         /\ resp'.data = None
         /\ db' = db

\* A listing with active_only has the active quizzes and no other.
ListedWhenActive ==
    (req'.op = "get_all_quizzes" /\ req'.active_only) =>
      {resp'.data[1].quizzes[i].id : i \in 1..Len(resp'.data[1].quizzes)}
        = {id \in DOMAIN db.quiz : db.quiz[id].is_active}

\* An inactive quiz stays stored, inactive and with its rows until an
\* update sets is_active to true or a delete removes it, and both succeed.
KeptWhileInactive ==
    \A quiz_id \in QuizIds :
       Inactive(quiz_id) =>
         /\ (req'.op = "delete_quiz" /\ req'.quiz_id = quiz_id)
              => (resp'.status = 200 /\ quiz_id \notin DOMAIN db'.quiz)
         /\ (/\ req'.op = "update_quiz" /\ req'.quiz_id = quiz_id
             /\ PassesBodyChecks(req'))
              => /\ resp'.status = 200
                 /\ db'.quiz[quiz_id].is_active
                      = (req'.data.is_active = Some(TRUE))
         /\ ~(req'.op \in {"delete_quiz", "update_quiz"} /\ req'.quiz_id = quiz_id)
              => /\ quiz_id \in DOMAIN db'.quiz
                 /\ RowsOf(db', quiz_id) = RowsOf(db, quiz_id)

C27_ReactivatedWitness ==
    /\ req.op = "update_quiz"
    /\ req.data.is_active = Some(TRUE)
    /\ resp.status = 200
    /\ db.quiz[req.quiz_id].is_active
    /\ \E other \in DOMAIN db.quiz : Inactive(other)

\* ---------------------------------------------------------------------
\* Time check and submission at the same instant
\* ---------------------------------------------------------------------

\* Both requests were handled, for a quiz with a time limit, and the time
\* check returned is_expired.
BothAnswered ==
    /\ req.op = "submit_quiz"
    /\ db.quiz[req.quiz_id].time_limit \notin {None, Some(0)}
    /\ req.started_at.kind = "naive"
    /\ req.checked[1].status = 200

\* The submission was refused for its time.
RefusedForTime ==
    resp.status = 422 /\ resp.message = "Time limit exceeded for this quiz"

\* C28: for the same quiz, started_at and instant, the time check returns
\* is_expired true exactly when the submission is refused with "Time limit
\* exceeded", also when the elapsed time is the limit exactly.
C28_ExpiryAgrees ==
    BothAnswered => (req.checked[1].data[1].is_expired <=> RefusedForTime)

\* The two agree whenever the elapsed time is not the limit exactly.
C28_AgreeOffTheLimit ==
    (BothAnswered
       /\ req.started_at.elapsed # 60 * db.quiz[req.quiz_id].time_limit[1])
      => (req.checked[1].data[1].is_expired <=> RefusedForTime)

\* C28 witness: exactly 30 minutes after the start of a quiz limited to 30
\* minutes the time check returned is_expired true and the submission was
\* scored.
C28_Witness ==
    /\ BothAnswered
    /\ req.started_at.elapsed = 30 * 60
    /\ db.quiz[req.quiz_id].time_limit = Some(30)
    /\ req.checked[1].data[1].is_expired
    /\ req.checked[1].data[1].remaining_minutes = 0
    /\ resp.status = 200

\* ---------------------------------------------------------------------
\* The outcomes of a timed submission
\* ---------------------------------------------------------------------

\* C29: a submission with an answers list to an active quiz with a time
\* limit is scored with 200 or refused for its time with 422, whatever its
\* started_at is (absent, no string, no timestamp, a timestamp without or
\* with offset); it is never answered with a 5xx status.
C29_ScoredOrRefused ==
    TimedSubmission =>
      /\ Scored \/ (resp.status = 422 /\ ~resp.success /\ resp.data = None)
      /\ resp.status < 500

\* The outcomes by the kind of started_at: 200 or 422 for an absent one, a
\* string that is no timestamp and a timestamp without offset; 500 for a
\* value that is no string and for a timestamp with offset.
C29_OutcomesByKind ==
    TimedSubmission =>
      IF req.data.started_at.kind \in {"nonstring", "aware"}
      THEN resp.status = 500
      ELSE Scored \/ resp.status = 422

\* C29 witness: a submission whose started_at has an offset and lies within
\* the limit of the quiz was answered 500.
C29_Witness ==
    /\ TimedSubmission
    /\ req.data.started_at = StartedAt("aware", 0)
    /\ req.data.answers = Some(<<>>)
    /\ resp.status = 500
    /\ ~resp.success

\* ---------------------------------------------------------------------
\* Two deletes of one quiz at the same time
\* ---------------------------------------------------------------------

BothDone == \A p \in Requests : req.pc[p] = "done"

Succeeded(p) == req.pc[p] = "done" /\ resp[p].status = 200 /\ resp[p].success

Failed(p) ==
    req.pc[p] = "done" /\ ~resp[p].success /\ resp[p].status \in {404, 500}

\* No question refers to a quiz that is not stored, no answer to a question
\* that is not stored.
NoOrphans(d) ==
    /\ \A q \in DOMAIN d.question : d.question[q].quiz_id \in DOMAIN d.quiz
    /\ \A a \in DOMAIN d.answer : d.answer[a].question_id \in DOMAIN d.question

\* The rows of the quizzes other than quiz_id in d.
OtherRows(d, quiz_id) == cascade_delete(d, quiz_id)

\* C30: of two deletes of one stored quiz that run at the same time, in
\* every interleaving of their lookups and their commits, at most one
\* reports success and the other reports 404 or 500.
C30_AtMostOneSucceeds ==
    BothDone =>
      \E p \in Requests :
         /\ Failed(p)
         /\ \A o \in Requests \ {p} : Succeeded(o) \/ Failed(o)

\* What holds in every interleaving: each request is answered 200, 404 or
\* 500 and at least one is answered 200; afterwards the quiz, its questions
\* and their answers are gone, no row refers to a row that is not stored,
\* and the rows of the other quizzes are never touched.
C30_DeletedOnceAndClean ==
    /\ NoOrphans(db)
    /\ \E st \in RaceStores :
          /\ req.quiz_id \in DOMAIN st.db.quiz
          /\ OtherRows(db, req.quiz_id) = OtherRows(st.db, req.quiz_id)
    /\ BothDone =>
         /\ \A p \in Requests : Succeeded(p) \/ Failed(p)
         /\ \E p \in Requests : Succeeded(p)
         /\ req.quiz_id \notin DOMAIN db.quiz
         /\ db = OtherRows(db, req.quiz_id)

\* Both requests report success only if both lookups ran before the first
\* commit; a lookup after the first commit is answered 404.
C30_LateLookupNotFound ==
    [][\A p \in Requests :
         (req.pc[p] = "lookup" /\ req'.pc[p] # "lookup"
            /\ req.quiz_id \notin DOMAIN db.quiz)
           => (req'.pc[p] = "done" /\ resp'[p].status = 404)]_vars

\* C30 witness: both requests looked the quiz up before either committed,
\* and both reported that they deleted it; another quiz is still stored.
C30_Witness ==
    /\ BothDone
    /\ \A p \in Requests : Succeeded(p) /\ req.quiz[p] # None
    /\ req.quiz_id \notin DOMAIN db.quiz
    /\ DOMAIN db.quiz # {}
    /\ NoOrphans(db)

\* One request reported success and the other 404 or 500.
C30_OneFailedWitness ==
    /\ BothDone
    /\ \E p \in Requests : Succeeded(p) /\ resp[3 - p].status = 404
    /\ DOMAIN db.quiz # {}

====
